---- MODULE Spec2Model ----
(***************************************************************************)
(* Multi-fidelity Monte Carlo estimators of pyapprox                       *)
(* (pyapprox/multifidelity/monte_carlo_estimators.py).                     *)
(*                                                                         *)
(* The state is one estimator object (est), the position of the ACVGMFB    *)
(* recursion-tree search (search), the outcome of the last call (last) and *)
(* one run of AETCBLUE.estimate (aetc); pool is one run of                 *)
(* estimate_variance with its trials and worker processes.                 *)
(* Real numbers are exact fractions <<num, den>>; model i of the source    *)
(* is entry i+1 of a sequence, recursion indices keep the source's         *)
(* 0-based model numbers.  What the source computes from the covariance    *)
(* (the optimizer's answer, r^2, singularity of the discrepancy system)    *)
(* is an input of the action that calls it.                                *)
(***************************************************************************)
EXTENDS Integers, Sequences, FiniteSets, TLC

VARIABLES est, search, last, aetc, pool, best

vars == <<est, search, last, aetc, pool, best>>

---------------------------------------------------------------------------
(* Bounds of the model *)

MaxModels == 3
MaxBlueModels == 2
MaxCost == 2
MaxTargetCost == 8
MaxRatioNum == 3
MaxVarRed == 2
MaxBlueX == 1

(* Values of the MLBLUE objective: 1/k for k up to MaxBlueFun *)
MaxBlueFun == 1

(* Budgets of AETCBLUE.estimate are -2..MaxBudget, rates of the best
   subset are k/2 for k up to MaxRateNum *)
MaxBudget == 14
MaxRateNum == 16

(* estimate_variance: at most MaxTrials trials of MaxDraws samples each,
   max_eval_concurrency up to MaxConcurrency *)
MaxTrials == 3
MaxDraws == 2
MaxConcurrency == 3

(* The closed forms: the largest model cost, variance and target cost, the
   denominator of the covariances and of the float costs, the largest
   sample ratio and the largest target cost of get_nhf_samples *)
MaxLevelCost == 6
MaxVariance == 4
CovDen == 4
MaxSpend == 81
CostDen == 4
MaxLevelRatio == 4
MaxFloatTarget == 15

(* Granularity of the continuous sample ratios: ratios are k/RatioDen *)
RatioDen == 1

---------------------------------------------------------------------------
(* Exact arithmetic on fractions <<num, den>>, den > 0 *)

RECURSIVE GCD(_, _)
GCD(a, b) == IF b = 0 THEN a ELSE GCD(b, a % b)

Frac(n, d) == LET g == GCD(n, d) IN IF g = 0 THEN <<0, 1>> ELSE <<n \div g, d \div g>>

FInt(n) == <<n, 1>>

FAdd(a, b) == Frac(a[1] * b[2] + b[1] * a[2], a[2] * b[2])

FMul(a, b) == Frac(a[1] * b[1], a[2] * b[2])

FDiv(a, b) == Frac(a[1] * b[2], a[2] * b[1])

FLeq(a, b) == a[1] * b[2] <= b[1] * a[2]

FFloor(a) == a[1] \div a[2]

FIsInt(a) == a[1] % a[2] = 0

(* np.inf, and float comparison a < b with np.inf as <<1, 0>> *)
Inf == <<1, 0>>

FLess(a, b) == a[1] * b[2] < b[1] * a[2]

(* None for a variance, a cost, an array *)
NoVariance == <<0, 0>>

NoCost == -1

NoArray == <<>>

RECURSIVE SumTo(_, _)
SumTo(f, n) == IF n = 0 THEN 0 ELSE f[n] + SumTo(f, n - 1)

RECURSIVE FSumTo(_, _)
FSumTo(f, n) == IF n = 0 THEN FInt(0) ELSE FAdd(f[n], FSumTo(f, n - 1))

(* np.dot(costs, nsamples) *)
Dot(costs, nsamples) == SumTo([i \in 1..Len(costs) |-> costs[i] * nsamples[i]], Len(costs))

---------------------------------------------------------------------------
(* Sample-count algebra of control_variate_monte_carlo (imported at        *)
(* monte_carlo_estimators.py:13-38)                                        *)

(* Integer costs as floats *)
FCosts(costs) == [i \in 1..Len(costs) |-> FInt(costs[i])]

(* costs[0] + sum_i nsample_ratios[i] * costs[i+1], for float costs: the
   cost of one high-fidelity sample with its share of low-fidelity samples *)
unit_cost(costs, nsample_ratios) ==
    FAdd(costs[1],
         FSumTo([i \in 1..Len(nsample_ratios) |->
                    FMul(nsample_ratios[i], costs[i + 1])],
                Len(nsample_ratios)))

(* The same for integer costs *)
UnitCost(costs, nsample_ratios) == unit_cost(FCosts(costs), nsample_ratios)

(* get_nhf_samples(target_cost, costs, nsample_ratios) for float arguments *)
get_nhf_samples_float(target_cost, costs, nsample_ratios) ==
    FDiv(target_cost, unit_cost(costs, nsample_ratios))

(* get_nhf_samples(target_cost, costs, nsample_ratios) for an integer
   target cost and integer costs *)
get_nhf_samples(target_cost, costs, nsample_ratios) ==
    get_nhf_samples_float(FInt(target_cost), FCosts(costs), nsample_ratios)

(* The continuous sample counts [nhf, r_1*nhf, ...] *)
nsamples_float(target_cost, costs, nsample_ratios) ==
    LET nhf == get_nhf_samples(target_cost, costs, nsample_ratios)
    IN  [i \in 1..Len(costs) |->
            IF i = 1 THEN nhf ELSE FMul(nsample_ratios[i - 1], nhf)]

(* np.round of a non-negative fraction: nearest integer, halves to even *)
FRound(a) ==
    LET q  == a[1] \div a[2]
        r2 == 2 * (a[1] - q * a[2])
    IN  IF r2 < a[2] THEN q
        ELSE IF r2 > a[2] THEN q + 1
        ELSE IF q % 2 = 0 THEN q ELSE q + 1

(* get_nsamples_per_model(target_cost, costs, nsample_ratios, True) *)
get_nsamples_per_model(target_cost, costs, nsample_ratios) ==
    LET f == nsamples_float(target_cost, costs, nsample_ratios)
    IN  [i \in 1..Len(costs) |-> FRound(f[i])]

(* round_nsample_ratios(target_cost, costs, nsample_ratios): the integer
   parts of the continuous counts, the ratios they make and their cost;
   raises when no high-fidelity sample is left *)
round_nsample_ratios(target_cost, costs, nsample_ratios) ==
    LET f == nsamples_float(target_cost, costs, nsample_ratios)
        nsamples_floor == [i \in 1..Len(costs) |-> FFloor(f[i])]
    IN  IF nsamples_floor[1] < 1
        THEN [raised |-> "AllocationError", nsample_ratios |-> NoArray,
              rounded_target_cost |-> NoCost]
        ELSE [raised |-> "none",
              nsample_ratios |->
                  [i \in 1..Len(nsample_ratios) |->
                      Frac(nsamples_floor[i + 1], nsamples_floor[1])],
              rounded_target_cost |-> Dot(costs, nsamples_floor)]

---------------------------------------------------------------------------
(* Recursion indices and allocation matrices *)

(* get_sample_allocation_matrix_acvmf(recursion_index): the set of the
   entries <<row, column>> that are 1.  Column 2j+1 is z_j, column 2j is
   z_j^*; z_i^* is the z of the parent of model i; every column is then
   filled above its last 1 *)
get_sample_allocation_matrix_acvmf(recursion_index) ==
    LET nmodels == Len(recursion_index) + 1
    IN  {rc \in (0..(nmodels - 1)) \X (1..(2 * nmodels - 1)) :
            IF rc[2] % 2 = 1
            THEN rc[1] <= (rc[2] - 1) \div 2
            ELSE rc[1] <= recursion_index[rc[2] \div 2]}

(* Number of edges from model m up to model 0 following recursion_index,
   -1 when model 0 is not reached within fuel edges (a cycle) *)
RECURSIVE DepthOf(_, _, _)
DepthOf(recursion_index, m, fuel) ==
    IF m = 0 THEN 0
    ELSE IF fuel = 0 THEN -1
    ELSE LET d == DepthOf(recursion_index, recursion_index[m], fuel - 1)
         IN  IF d < 0 THEN -1 ELSE d + 1

(* recursion_index is a tree rooted at model 0 *)
IsTree(recursion_index) ==
    \A m \in 1..Len(recursion_index) :
        /\ recursion_index[m] \in 0..Len(recursion_index)
        /\ DepthOf(recursion_index, m, Len(recursion_index)) >= 0

TreeDepth(recursion_index) ==
    LET ds == {DepthOf(recursion_index, m, Len(recursion_index)) :
                   m \in 1..Len(recursion_index)}
    IN  CHOOSE d \in ds : \A e \in ds : e <= d

RECURSIVE IndexCode(_, _)
IndexCode(recursion_index, k) ==
    IF k = 0 THEN 0
    ELSE recursion_index[k] + (Len(recursion_index) + 1) * IndexCode(recursion_index, k - 1)

RECURSIVE SeqOfIndices(_)
SeqOfIndices(S) ==
    IF S = {} THEN <<>>
    ELSE LET x == CHOOSE y \in S :
                      \A z \in S : IndexCode(y, Len(y)) <= IndexCode(z, Len(z))
         IN  <<x>> \o SeqOfIndices(S \ {x})

(* tree_depth = None *)
NoDepth == 0

(* get_acv_recursion_indices(nmodels, depth): the trees rooted at model 0
   of depth at most depth (nmodels-1 when depth is None), in a fixed order *)
get_acv_recursion_indices(nmodels, depth) ==
    LET d == IF depth = NoDepth THEN nmodels - 1 ELSE depth
    IN  SeqOfIndices({ix \in [1..(nmodels - 1) -> 0..(nmodels - 1)] :
                          IsTree(ix) /\ TreeDepth(ix) <= d})

---------------------------------------------------------------------------
(* The estimator object *)

(* monte_carlo_estimators: the estimator classes by name *)
monte_carlo_estimators ==
    {"acvmf", "acvis", "mfmc", "mlmc", "acvgmf", "acvgmfb", "mc", "mlblue"}

(* The names a caller may pass, one of them unknown *)
EstimatorTypes == monte_carlo_estimators \cup {"mlmf"}

(* set_sampling_method: the keys of sampling_methods *)
sampling_methods == {"random", "sobol", "halton"}

(* The methods a caller passes in the model: one supported, one not *)
SamplingMethods == {"random", "lhs"}

(* Subclasses of AbstractACVEstimator / AbstractNumericalACVEstimator *)
ACVFamily == {"mlmc", "mfmc", "acvmf", "acvis", "acvgmf", "acvgmfb"}

NumericalFamily == {"acvmf", "acvis", "acvgmf", "acvgmfb"}

RecursionFamily == {"acvgmf", "acvgmfb"}

(* recursion_index = None *)
NoneIndex == <<0 - 1>>

(* No estimator constructed yet *)
NoEstimator ==
    [type |-> "none", nmodels |-> 0, cov_shape |-> 0, cov00 |-> 0,
     costs |-> NoArray, sampling_method |-> "none",
     recursion_index |-> NoArray, allocation_mat |-> {}, depth |-> NoDepth,
     nsample_ratios |-> NoArray, nsamples_per_model |-> NoArray,
     nsamples_per_subset |-> NoArray,
     rounded_target_cost |-> NoCost, optimized_variance |-> NoVariance,
     models_accetable |-> TRUE]

(* Variant: cov and costs are not compared *)
AbstractMonteCarloEstimator_init_unchecked(type, cov_shape, cov00, costs, sampling_method) ==
    IF sampling_method \notin sampling_methods
    THEN [raised |-> "ValueError", est |-> NoEstimator]
    ELSE [raised |-> "none",
          est |-> [NoEstimator EXCEPT !.type = type, !.nmodels = Len(costs),
                                      !.cov_shape = cov_shape, !.cov00 = cov00,
                                      !.costs = costs,
                                      !.sampling_method = sampling_method]]

(* AbstractMonteCarloEstimator.__init__ with set_random_state(None) and
   set_sampling_method: [raised, est] *)
AbstractMonteCarloEstimator_init(type, cov_shape, cov00, costs, sampling_method) ==
    IF cov_shape # Len(costs)
    THEN [raised |-> "ValueError", est |-> NoEstimator]
    ELSE IF sampling_method \notin sampling_methods
    THEN [raised |-> "ValueError", est |-> NoEstimator]
    ELSE [raised |-> "none",
          est |-> [NoEstimator EXCEPT !.type = type, !.nmodels = Len(costs),
                                      !.cov_shape = cov_shape, !.cov00 = cov00,
                                      !.costs = costs,
                                      !.sampling_method = sampling_method]]

(* ACVGMFEstimator._create_allocation_matrix *)
create_allocation_matrix(e) ==
    [e EXCEPT !.allocation_mat = get_sample_allocation_matrix_acvmf(e.recursion_index)]

(* Variant: the index is stored before its length is checked *)
set_recursion_index_stored_first(e, index) ==
    IF Len(index) # e.nmodels - 1
    THEN [raised |-> "ValueError", est |-> [e EXCEPT !.recursion_index = index]]
    ELSE [raised |-> "none",
          est |-> create_allocation_matrix([e EXCEPT !.recursion_index = index])]

(* ACVGMFEstimator.set_recursion_index(index): [raised, est] *)
set_recursion_index(e, index) ==
    IF Len(index) # e.nmodels - 1
    THEN [raised |-> "ValueError", est |-> e]
    ELSE [raised |-> "none",
          est |-> create_allocation_matrix([e EXCEPT !.recursion_index = index])]

(* ACVGMFEstimator.__init__ after the base constructor *)
ACVGMFEstimator_init(e, recursion_index) ==
    set_recursion_index(e, IF recursion_index = NoneIndex
                           THEN [i \in 1..(e.nmodels - 1) |-> 0]
                           ELSE recursion_index)

(* Variant: the costs and correlations are not checked *)
MFMCEstimator_init_unchecked(e, models_accetable) ==
    [raised |-> "none", est |-> [e EXCEPT !.models_accetable = models_accetable]]

(* MFMCEstimator.__init__ after the base constructor; models_accetable is
   the answer of check_mfmc_model_costs_and_correlations for the cov and
   costs of the estimator *)
MFMCEstimator_init(e, models_accetable) ==
    IF models_accetable
    THEN [raised |-> "none", est |-> [e EXCEPT !.models_accetable = models_accetable]]
    ELSE [raised |-> "ValueError", est |-> NoEstimator]

(* get_estimator(estimator_type, cov, costs, variable, **kwargs):
   [raised, est], est the new object when nothing is raised *)
get_estimator(estimator_type, cov_shape, cov00, costs, sampling_method, recursion_index, tree_depth, models_accetable) ==
    IF estimator_type \notin monte_carlo_estimators
    THEN [raised |-> "ValueError", est |-> NoEstimator]
    ELSE LET base == AbstractMonteCarloEstimator_init(
                         estimator_type, cov_shape, cov00, costs, sampling_method)
         IN  IF base.raised # "none" THEN base
             ELSE IF estimator_type = "mfmc"
             THEN MFMCEstimator_init(base.est, models_accetable)
             ELSE IF estimator_type = "acvgmf"
             THEN ACVGMFEstimator_init(base.est, recursion_index)
             ELSE IF estimator_type = "acvgmfb"
             THEN LET r == ACVGMFEstimator_init(base.est, NoneIndex)
                  IN  [r EXCEPT !.est.depth = tree_depth]
             ELSE base

---------------------------------------------------------------------------
(* Sample allocation of the ACV family *)

(* The inequality constraints handed to the optimizer, as records
   [fun, ii, jj]: fun(ratios, ii, jj, target_cost, costs) >= 0 *)
Constraint(fun, ii, jj) == [fun |-> fun, ii |-> ii, jj |-> jj]

(* Variant: only the constraints against the high-fidelity model *)
ACVGMF_get_constraints_hf_only(e) ==
    {Constraint("acv_sample_allocation_nlf_gt_nhf_ratio_constraint", ii, 0) :
         ii \in 1..(e.nmodels - 1)}

(* ACVGMFEstimator._get_constraints *)
ACVGMF_get_constraints(e) ==
    {Constraint("acv_sample_allocation_gmf_ratio_constraint", ii, e.recursion_index[ii]) :
         ii \in {k \in 1..(e.nmodels - 1) : e.recursion_index[k] > 0}}
    \cup {Constraint("acv_sample_allocation_nlf_gt_nhf_ratio_constraint", ii, 0) :
              ii \in 1..(e.nmodels - 1)}

(* ACVMFEstimator._get_constraints, ACVISEstimator._get_constraints *)
ACVMF_get_constraints(e) ==
    {Constraint("acv_sample_allocation_nlf_gt_nhf_ratio_constraint", ii, 0) :
         ii \in 1..(e.nmodels - 1)}

(* AbstractNumericalACVEstimator.get_constraints *)
get_constraints(e) ==
    {Constraint("acv_sample_allocation_nhf_samples_constraint", 0, 0)}
    \cup (IF e.type \in RecursionFamily THEN ACVGMF_get_constraints(e)
          ELSE ACVMF_get_constraints(e))

(* The value of a constraint function is >= 0, nhf being the continuous
   number of high-fidelity samples of the ratios:
   nhf >= 1;  nhf*(r_ii - r_jj) >= 1;  nhf*(r_ii - 1) >= 1 *)
ConstraintHolds(c, nhf, ratios) ==
    IF c.fun = "acv_sample_allocation_nhf_samples_constraint"
    THEN FLeq(FInt(1), nhf)
    ELSE IF c.fun = "acv_sample_allocation_gmf_ratio_constraint"
    THEN FLeq(FAdd(FMul(ratios[c.jj], nhf), FInt(1)), FMul(ratios[c.ii], nhf))
    ELSE FLeq(FAdd(nhf, FInt(1)), FMul(ratios[c.ii], nhf))

(* The ratios satisfy every constraint of the estimator *)
Feasible(e, target_cost, ratios) ==
    LET nhf == get_nhf_samples(target_cost, e.costs, ratios)
    IN  \A c \in get_constraints(e) : ConstraintHolds(c, nhf, ratios)

(* The continuous sample ratios of the model *)
Ratios == {Frac(k, RatioDen) : k \in RatioDen..MaxRatioNum}

RatioVectors(n) == [1..n -> Ratios]

(* What the optimizer can answer: NoArray for a failed solve, else ratios
   that satisfy the constraints it was given (the closed forms of MLMC and
   MFMC have no constraints and always answer) *)
OptimizerAnswers(e, target_cost) ==
    IF e.type \in NumericalFamily
    THEN {NoArray} \cup
         {x \in RatioVectors(e.nmodels - 1) : Feasible(e, target_cost, x)}
    ELSE RatioVectors(e.nmodels - 1)

(* _allocate_samples: allocate_samples_acv raises RuntimeError when the
   solver fails; [raised, nsample_ratios] *)
ACV_allocate_samples(e, target_cost, x) ==
    IF x = NoArray
    THEN [raised |-> "RuntimeError", nsample_ratios |-> NoArray]
    ELSE [raised |-> "none", nsample_ratios |-> x]

(* 1 - r^2 as computed from the covariance, or the error of a singular
   discrepancy system: LinAlgError from numpy, a RuntimeError from torch *)
VarReds == {Frac(k, MaxVarRed) : k \in 1..MaxVarRed}

SingularErrors == {"LinAlgError", "RuntimeError"}

CVOutcomes(e) ==
    {[raised |-> "none", var_red |-> v] : v \in VarReds}
    \cup (IF e.type \in NumericalFamily
          THEN {[raised |-> c, var_red |-> FInt(0)] : c \in SingularErrors}
          ELSE {})

(* Variant: the number of high-fidelity samples is what the target cost
   buys of the high-fidelity model alone *)
get_variance_hf_cost(e, target_cost, nsample_ratios, cv) ==
    IF cv.raised # "none"
    THEN [raised |-> cv.raised, variance |-> NoVariance]
    ELSE [raised |-> "none",
          variance |-> FDiv(FMul(cv.var_red, FInt(e.cov00)),
                            Frac(target_cost, e.costs[1]))]

(* get_variance(target_cost, nsample_ratios) = var_red*cov[0,0]/nhf_samples:
   [raised, variance] *)
get_variance(e, target_cost, nsample_ratios, cv) ==
    IF cv.raised # "none"
    THEN [raised |-> cv.raised, variance |-> NoVariance]
    ELSE [raised |-> "none",
          variance |-> FDiv(FMul(cv.var_red, FInt(e.cov00)),
                            get_nhf_samples(target_cost, e.costs, nsample_ratios))]

(* Variant: the variance is not stored *)
set_optimized_params_no_variance(e, nsample_ratios, rounded_target_cost, optimized_variance) ==
    [e EXCEPT !.nsample_ratios = nsample_ratios,
              !.rounded_target_cost = rounded_target_cost,
              !.nsamples_per_model =
                  get_nsamples_per_model(rounded_target_cost, e.costs, nsample_ratios)]

(* AbstractACVEstimator.set_optimized_params *)
set_optimized_params(e, nsample_ratios, rounded_target_cost, optimized_variance) ==
    [e EXCEPT !.nsample_ratios = nsample_ratios,
              !.rounded_target_cost = rounded_target_cost,
              !.nsamples_per_model =
                  get_nsamples_per_model(rounded_target_cost, e.costs, nsample_ratios),
              !.optimized_variance = optimized_variance]

(* Nothing returned: the call raised *)
NoReturn == <<>>

(* Variant: the optimizer's ratios and the target cost are kept as they
   are, without round_nsample_ratios *)
allocate_samples_unrounded(e, target_cost, x, cv) ==
    LET opt == ACV_allocate_samples(e, target_cost, x)
        var == get_variance(e, target_cost, x, cv)
    IN  IF opt.raised # "none"
        THEN [raised |-> opt.raised, est |-> e, ret |-> NoReturn]
        ELSE IF var.raised # "none"
        THEN [raised |-> var.raised, est |-> e, ret |-> NoReturn]
        ELSE [raised |-> "none",
              est |-> [e EXCEPT !.nsample_ratios = x,
                                !.rounded_target_cost = target_cost,
                                !.nsamples_per_model =
                                    get_nsamples_per_model(target_cost, e.costs, x),
                                !.optimized_variance = var.variance],
              ret |-> <<x, var.variance, target_cost>>]

(* Variant: the rounded ratios and their cost are stored before the
   variance is computed *)
allocate_samples_stored_early(e, target_cost, x, cv) ==
    LET opt == ACV_allocate_samples(e, target_cost, x)
    IN  IF opt.raised # "none"
        THEN [raised |-> opt.raised, est |-> e, ret |-> NoReturn]
        ELSE
        LET rnd == round_nsample_ratios(target_cost, e.costs, opt.nsample_ratios)
        IN  IF rnd.raised # "none"
            THEN [raised |-> rnd.raised, est |-> e, ret |-> NoReturn]
            ELSE
            LET var == get_variance(e, rnd.rounded_target_cost, rnd.nsample_ratios, cv)
            IN  IF var.raised # "none"
                THEN [raised |-> var.raised,
                      est |-> set_optimized_params_no_variance(
                                  e, rnd.nsample_ratios, rnd.rounded_target_cost,
                                  NoVariance),
                      ret |-> NoReturn]
                ELSE [raised |-> "none",
                      est |-> set_optimized_params(e, rnd.nsample_ratios,
                                  rnd.rounded_target_cost, var.variance),
                      ret |-> <<rnd.nsample_ratios, var.variance,
                                rnd.rounded_target_cost>>]

(* AbstractACVEstimator.allocate_samples(target_cost): [raised, est, ret]
   with ret = <<nsample_ratios, variance, rounded_target_cost>> *)
allocate_samples(e, target_cost, x, cv) ==
    LET opt == ACV_allocate_samples(e, target_cost, x)
    IN  IF opt.raised # "none"
        THEN [raised |-> opt.raised, est |-> e, ret |-> NoReturn]
        ELSE
        LET rnd == round_nsample_ratios(target_cost, e.costs, opt.nsample_ratios)
        IN  IF rnd.raised # "none"
            THEN [raised |-> rnd.raised, est |-> e, ret |-> NoReturn]
            ELSE
            LET var == get_variance(e, rnd.rounded_target_cost, rnd.nsample_ratios, cv)
            IN  IF var.raised # "none"
                THEN [raised |-> var.raised, est |-> e, ret |-> NoReturn]
                ELSE [raised |-> "none",
                      est |-> set_optimized_params(e, rnd.nsample_ratios,
                                  rnd.rounded_target_cost, var.variance),
                      ret |-> <<rnd.nsample_ratios, var.variance,
                                rnd.rounded_target_cost>>]

---------------------------------------------------------------------------
(* Monte Carlo and MLBLUE allocation *)

(* MCEstimator.get_variance(nhf_samples): cov[0,0]/nhf_samples in numpy
   floats, inf when nhf_samples is 0 *)
MC_get_variance(e, nhf_samples) ==
    IF nhf_samples = 0 THEN Inf ELSE Frac(e.cov00, nhf_samples)

(* Variant: the target cost is stored as the rounded target cost *)
MC_allocate_samples_target(e, target_cost) ==
    LET nhf_samples == target_cost \div e.costs[1]
        variance == MC_get_variance(e, nhf_samples)
    IN  [raised |-> "none",
         est |-> [e EXCEPT !.nsamples_per_model = <<nhf_samples>>,
                           !.rounded_target_cost = target_cost,
                           !.optimized_variance = variance],
         ret |-> <<NoArray, variance, target_cost>>]

(* MCEstimator.allocate_samples(target_cost): [raised, est, ret] *)
MC_allocate_samples(e, target_cost) ==
    LET nhf_samples == target_cost \div e.costs[1]
        variance == MC_get_variance(e, nhf_samples)
        rounded_target_cost == e.costs[1] * nhf_samples
    IN  [raised |-> "none",
         est |-> [e EXCEPT !.nsamples_per_model = <<nhf_samples>>,
                           !.rounded_target_cost = rounded_target_cost,
                           !.optimized_variance = variance],
         ret |-> <<NoArray, variance, rounded_target_cost>>]

(* MCEstimator.generate_data(functions): self.nhf_samples samples and the
   values of model 0 on them. An attribute is a field of the estimator;
   reading one that was never assigned raises AttributeError:
   [raised, ret] *)
MC_generate_data(e) ==
    IF "nhf_samples" \notin DOMAIN e
    THEN [raised |-> "AttributeError", ret |-> NoReturn]
    ELSE [raised |-> "none",
          ret |-> [nsamples |-> e.nhf_samples, model |-> 0,
                   nvalues |-> e.nhf_samples]]

(* get_model_subsets(nmodels): the non-empty subsets of the models, the
   k-th being the models at the one bits of k *)
get_model_subsets(nmodels) ==
    [k \in 1..(2 ^ nmodels - 1) |->
        {i \in 0..(nmodels - 1) : (k \div (2 ^ i)) % 2 = 1}]

(* MLBLUEstimator._get_model_subset_costs(costs) *)
get_model_subset_costs(costs) ==
    LET subsets == get_model_subsets(Len(costs))
    IN  [k \in 1..Len(subsets) |->
            SumTo([i \in 1..Len(costs) |-> IF (i - 1) \in subsets[k] THEN costs[i] ELSE 0],
                  Len(costs))]

(* The values of the objective at the answer of minimize *)
BlueFuns == {Frac(1, k) : k \in 1..MaxBlueFun}

(* res.success is False *)
FailedAnswer == [success |-> FALSE, x |-> NoArray, fun |-> NoVariance]

(* What scipy's minimize can answer: a failure, or the fractions x of
   the unit budget per subset (slightly negative or positive, some
   positive) with the value of the objective *)
BlueAnswers(e) ==
    {FailedAnswer}
    \cup {[success |-> TRUE, x |-> x, fun |-> v] :
             x \in {y \in [1..(2 ^ e.nmodels - 1) -> {0 - 1} \cup 1..MaxBlueX] :
                        \E k \in 1..(2 ^ e.nmodels - 1) : y[k] > 0},
             v \in BlueFuns}

(* Variant: the counts are rounded to the nearest integer *)
MLBLUE_allocate_samples_nearest(e, target_cost, asketch_shape, res, round_nsamples) ==
    IF asketch_shape # Len(e.costs) \/ ~res.success
    THEN [raised |-> "AssertionError", est |-> e, ret |-> NoReturn]
    ELSE
    LET nsubsets == 2 ^ e.nmodels - 1
        clipped == [k \in 1..nsubsets |-> IF res.x[k] > 0 THEN res.x[k] ELSE 0]
        total == SumTo(clipped, nsubsets)
        nsamples_per_subset_frac == [k \in 1..nsubsets |-> Frac(clipped[k], total)]
        subset_costs == get_model_subset_costs(e.costs)
        unrounded == [k \in 1..nsubsets |->
                         FDiv(FMul(FInt(target_cost), nsamples_per_subset_frac[k]),
                              FInt(subset_costs[k]))]
        nsamples_per_subset == [k \in 1..nsubsets |->
                                   IF round_nsamples THEN FInt(FRound(unrounded[k]))
                                   ELSE unrounded[k]]
        rounded_target_cost ==
            FSumTo([k \in 1..nsubsets |->
                       FMul(nsamples_per_subset[k], FInt(subset_costs[k]))], nsubsets)
    IN  [raised |-> "none",
         est |-> [e EXCEPT !.nsamples_per_subset = nsamples_per_subset,
                           !.optimized_variance = res.fun,
                           !.rounded_target_cost = rounded_target_cost],
         ret |-> <<nsamples_per_subset, res.fun, rounded_target_cost>>]

(* MLBLUEstimator.allocate_samples(target_cost, asketch, round_nsamples):
   [raised, est, ret]; sample counts and cost are fractions *)
MLBLUE_allocate_samples(e, target_cost, asketch_shape, res, round_nsamples) ==
    IF asketch_shape # Len(e.costs) \/ ~res.success
    THEN [raised |-> "AssertionError", est |-> e, ret |-> NoReturn]
    ELSE
    LET nsubsets == 2 ^ e.nmodels - 1
        clipped == [k \in 1..nsubsets |-> IF res.x[k] > 0 THEN res.x[k] ELSE 0]
        total == SumTo(clipped, nsubsets)
        nsamples_per_subset_frac == [k \in 1..nsubsets |-> Frac(clipped[k], total)]
        subset_costs == get_model_subset_costs(e.costs)
        unrounded == [k \in 1..nsubsets |->
                         FDiv(FMul(FInt(target_cost), nsamples_per_subset_frac[k]),
                              FInt(subset_costs[k]))]
        nsamples_per_subset == [k \in 1..nsubsets |->
                                   IF round_nsamples THEN FInt(FFloor(unrounded[k]))
                                   ELSE unrounded[k]]
        rounded_target_cost ==
            FSumTo([k \in 1..nsubsets |->
                       FMul(nsamples_per_subset[k], FInt(subset_costs[k]))], nsubsets)
    IN  [raised |-> "none",
         est |-> [e EXCEPT !.nsamples_per_subset = nsamples_per_subset,
                           !.optimized_variance = res.fun,
                           !.rounded_target_cost = rounded_target_cost],
         ret |-> <<nsamples_per_subset, res.fun, rounded_target_cost>>]

---------------------------------------------------------------------------
(* ACVGMFBEstimator.allocate_samples: the recursion-tree search *)

(* best_result = None *)
NoResult == <<>>

IdleSearch ==
    [pc |-> "idle", target_cost |-> NoCost, todo |-> <<>>, tried |-> <<>>,
     outcomes |-> <<>>, swallowed |-> <<>>,
     best_variance |-> Inf, best_result |-> NoResult]

(* Variant: the loop runs over every vector of parents, tree or not *)
ACVGMFB_begin_all_vectors(e, target_cost) ==
    [IdleSearch EXCEPT !.pc = "loop", !.target_cost = target_cost,
                       !.todo = SeqOfIndices([1..(e.nmodels - 1) -> 0..(e.nmodels - 1)])]

(* best_variance = np.inf; best_result = None; the generator of indices *)
ACVGMFB_begin(e, target_cost) ==
    [IdleSearch EXCEPT !.pc = "loop", !.target_cost = target_cost,
                       !.todo = get_acv_recursion_indices(e.nmodels, e.depth)]

(* Variant: the RuntimeError is swallowed but the variance is left as the
   previous candidate set it *)
ACVGMFB_except_stale(e, raised) ==
    IF raised = "RuntimeError"
    THEN [raised |-> "none", est |-> e, swallowed |-> TRUE]
    ELSE [raised |-> raised, est |-> e, swallowed |-> FALSE]

(* except RuntimeError: self.optimized_variance = np.inf; any other error
   leaves the loop: [raised, est, swallowed] *)
ACVGMFB_except(e, raised) ==
    IF raised = "RuntimeError"
    THEN [raised |-> "none", est |-> [e EXCEPT !.optimized_variance = Inf],
          swallowed |-> TRUE]
    ELSE [raised |-> raised, est |-> e, swallowed |-> FALSE]

(* The try statement around r = super().allocate_samples(target_cost) *)
ACVGMFB_try(e, r) ==
    IF r.raised = "none"
    THEN [raised |-> "none", est |-> r.est, swallowed |-> FALSE]
    ELSE ACVGMFB_except(e, r.raised)

(* Variant: a candidate with a finite variance as good as the best
   replaces it *)
ACVGMFB_is_better_or_equal(optimized_variance, best_variance) ==
    FLess(optimized_variance, Inf) /\ FLeq(optimized_variance, best_variance)

(* if self.optimized_variance < best_variance *)
ACVGMFB_is_better(optimized_variance, best_variance) ==
    FLess(optimized_variance, best_variance)

(* The update of best_result and best_variance after one candidate *)
ACVGMFB_update_best(s, e, index) ==
    IF ACVGMFB_is_better(e.optimized_variance, s.best_variance)
    THEN [s EXCEPT !.best_result = <<e.nsample_ratios, e.rounded_target_cost,
                                     e.optimized_variance, index>>,
                   !.best_variance = e.optimized_variance]
    ELSE s

(* The candidate is taken off the generator; tried, outcomes and swallowed
   record the candidates evaluated, what each left on the estimator
   (nsample_ratios, rounded_target_cost, optimized_variance) and whether
   its error was swallowed *)
ACVGMFB_record(s, index, t) ==
    [s EXCEPT !.todo = Tail(s.todo),
              !.tried = Append(s.tried, index),
              !.outcomes = Append(s.outcomes,
                                  <<t.est.nsample_ratios, t.est.rounded_target_cost,
                                    t.est.optimized_variance>>),
              !.swallowed = Append(s.swallowed, t.swallowed)]

(* The rest of the loop body once the try statement t is over *)
ACVGMFB_score(s, index, t) ==
    IF t.raised # "none"
    THEN [raised |-> t.raised, est |-> t.est, search |-> IdleSearch]
    ELSE [raised |-> "none", est |-> t.est,
          search |-> ACVGMFB_update_best(ACVGMFB_record(s, index, t), t.est, index)]

(* One pass of the loop body for the next index, e being the estimator
   after self.set_recursion_index(index): [raised, est, search] *)
ACVGMFB_candidate(e, s, x, cv) ==
    ACVGMFB_score(s, Head(s.todo),
                  ACVGMFB_try(e, allocate_samples(e, s.target_cost, x, cv)))

(* Variant: without a best result the estimator's current parameters are
   returned *)
ACVGMFB_finish_current(e, s) ==
    IF s.best_result = NoResult
    THEN [raised |-> "none", est |-> e,
          ret |-> <<e.nsample_ratios, e.rounded_target_cost, e.optimized_variance>>]
    ELSE LET b == s.best_result
         IN  [raised |-> "none",
              est |-> set_optimized_params(set_recursion_index(e, b[4]).est,
                                           b[1], b[2], b[3]),
              ret |-> <<b[1], b[2], b[3]>>]

(* After the loop: set_recursion_index(best_result[3]),
   set_optimized_params of best_result[:3], return best_result[:3];
   best_result[3] of None is a TypeError: [raised, est, ret] *)
ACVGMFB_finish(e, s) ==
    IF s.best_result = NoResult
    THEN [raised |-> "TypeError", est |-> e, ret |-> NoReturn]
    ELSE LET b == s.best_result
         IN  [raised |-> "none",
              est |-> set_optimized_params(set_recursion_index(e, b[4]).est,
                                           b[1], b[2], b[3]),
              ret |-> <<b[1], b[2], b[3]>>]

---------------------------------------------------------------------------
(* Sample partitions and generated data *)

(* get_sample_allocation_matrix_mlmc(nmodels): partition ii makes z_ii and
   z_{ii+1}^* *)
get_sample_allocation_matrix_mlmc(nmodels) ==
    {rc \in (0..(nmodels - 1)) \X (1..(2 * nmodels - 1)) :
        rc[2] = 2 * rc[1] + 1 \/ rc[2] = 2 * rc[1] + 2}

(* get_sample_allocation_matrix_mfmc(nmodels): partition ii is in every
   set from z_ii on *)
get_sample_allocation_matrix_mfmc(nmodels) ==
    {rc \in (0..(nmodels - 1)) \X (1..(2 * nmodels - 1)) : rc[2] >= 2 * rc[1] + 1}

(* get_sample_allocation_matrix_acvis(recursion_index): z_i^* is the
   partition of the parent of model i, z_i adds the partition of model i *)
get_sample_allocation_matrix_acvis(recursion_index) ==
    {rc \in (0..Len(recursion_index)) \X (1..(2 * Len(recursion_index) + 1)) :
        IF rc[2] % 2 = 0 THEN rc[1] = recursion_index[rc[2] \div 2]
        ELSE IF rc[2] = 1 THEN rc[1] = 0
        ELSE \/ rc[1] = (rc[2] - 1) \div 2
             \/ rc[1] = recursion_index[(rc[2] - 1) \div 2]}

(* get_npartition_samples_mlmc: the partitions of z_{i-1} and z_i make up
   the samples of model i *)
RECURSIVE get_npartition_samples_mlmc_at(_, _)
get_npartition_samples_mlmc_at(nsamples_per_model, i) ==
    IF i = 1 THEN nsamples_per_model[1]
    ELSE nsamples_per_model[i]
            - get_npartition_samples_mlmc_at(nsamples_per_model, i - 1)

get_npartition_samples_mlmc(nsamples_per_model) ==
    [i \in 1..Len(nsamples_per_model) |->
        get_npartition_samples_mlmc_at(nsamples_per_model, i)]

(* get_npartition_samples_mfmc: np.hstack((n[0], np.diff(n))) *)
get_npartition_samples_mfmc(nsamples_per_model) ==
    [i \in 1..Len(nsamples_per_model) |->
        IF i = 1 THEN nsamples_per_model[1]
        ELSE nsamples_per_model[i] - nsamples_per_model[i - 1]]

(* get_npartition_samples_acvis: every low-fidelity model has a partition
   of its own next to the high-fidelity samples *)
get_npartition_samples_acvis(nsamples_per_model) ==
    [i \in 1..Len(nsamples_per_model) |->
        IF i = 1 THEN nsamples_per_model[1]
        ELSE nsamples_per_model[i] - nsamples_per_model[1]]

(* np.unique of a set of numbers: its values in increasing order *)
RECURSIVE np_unique(_)
np_unique(S) ==
    IF S = {} THEN <<>>
    ELSE <<CHOOSE x \in S : \A y \in S : x <= y>>
            \o np_unique(S \ {CHOOSE x \in S : \A y \in S : x <= y})

(* The distinct sample counts in increasing order, the largest repeated up
   to nmodels entries *)
sort_array(nsamples_per_model, u) ==
    [j \in 1..Len(nsamples_per_model) |-> IF j <= Len(u) THEN u[j] ELSE u[Len(u)]]

diff_after_first(nsamples_per_model, a) ==
    [j \in 1..Len(nsamples_per_model) |->
        IF j = 1 THEN nsamples_per_model[1] ELSE a[j] - a[j - 1]]

(* get_npartition_samples_acvmf: the differences of the distinct sample
   counts in increasing order *)
get_npartition_samples_acvmf(nsamples_per_model) ==
    diff_after_first(
        nsamples_per_model,
        sort_array(nsamples_per_model,
                   np_unique({nsamples_per_model[i] :
                                 i \in 1..Len(nsamples_per_model)})))

(* The number of distinct sample counts below that of model i *)
RankOf(nsamples_per_model, i) ==
    Cardinality({nsamples_per_model[j] : j \in 1..Len(nsamples_per_model)}
                \cap (0..(nsamples_per_model[i + 1] - 1)))

(* reorder_allocation_matrix_acvgmf(allocation_mat, nsamples_per_model,
   recursion_index): z_i is made of the partitions up to the rank of its
   sample count, z_i^* is the z of the parent of model i *)
reorder_allocation_matrix_acvgmf(allocation_mat, nsamples_per_model, recursion_index) ==
    {rc \in (0..Len(recursion_index)) \X (1..(2 * Len(recursion_index) + 1)) :
        IF rc[2] % 2 = 1
        THEN rc[1] <= RankOf(nsamples_per_model, (rc[2] - 1) \div 2)
        ELSE rc[1] <= RankOf(nsamples_per_model, recursion_index[rc[2] \div 2])}

(* get_nsamples_subset(allocation_mat, npartition_samples): the sizes of
   z_0^*, z_0, z_1^*, z_1, ..., entry c+1 for column c *)
get_nsamples_subset(allocation_mat, npartition_samples) ==
    [c \in 1..(2 * Len(npartition_samples)) |->
        SumTo([r \in 1..Len(npartition_samples) |->
                  IF <<r - 1, c - 1>> \in allocation_mat
                  THEN npartition_samples[r] ELSE 0],
              Len(npartition_samples))]

(* np.zeros(nmodels-1, dtype=int) *)
ZeroIndex(nmodels) == [i \in 1..(nmodels - 1) |-> 0]

(* Variant: every family but MLMC and MFMC takes the partition sizes of
   ACVIS *)
get_npartition_samples_is(e, nsamples_per_model) ==
    IF e.type = "mlmc" THEN get_npartition_samples_mlmc(nsamples_per_model)
    ELSE IF e.type = "mfmc" THEN get_npartition_samples_mfmc(nsamples_per_model)
    ELSE get_npartition_samples_acvis(nsamples_per_model)

(* _get_npartition_samples of the family of the estimator *)
get_npartition_samples(e, nsamples_per_model) ==
    IF e.type = "mlmc" THEN get_npartition_samples_mlmc(nsamples_per_model)
    ELSE IF e.type = "mfmc" THEN get_npartition_samples_mfmc(nsamples_per_model)
    ELSE IF e.type = "acvis" THEN get_npartition_samples_acvis(nsamples_per_model)
    ELSE get_npartition_samples_acvmf(nsamples_per_model)

(* _get_reordered_sample_allocation_matrix of the family of the estimator *)
get_reordered_sample_allocation_matrix(e) ==
    IF e.type = "mlmc" THEN get_sample_allocation_matrix_mlmc(e.nmodels)
    ELSE IF e.type = "mfmc" THEN get_sample_allocation_matrix_mfmc(e.nmodels)
    ELSE IF e.type = "acvmf"
    THEN get_sample_allocation_matrix_acvmf(ZeroIndex(e.nmodels))
    ELSE IF e.type = "acvis"
    THEN get_sample_allocation_matrix_acvis(ZeroIndex(e.nmodels))
    ELSE reorder_allocation_matrix_acvgmf(e.allocation_mat, e.nsamples_per_model,
                                          e.recursion_index)

(* The rows of the generated samples that make up the set of a column:
   generate_samples_acv lays the partitions out one after the other *)
SubsetRows(allocation_mat, npartition_samples, c) ==
    {k \in 1..SumTo(npartition_samples, Len(npartition_samples)) :
        \E r \in 1..Len(npartition_samples) :
           /\ <<r - 1, c>> \in allocation_mat
           /\ SumTo(npartition_samples, r - 1) < k
           /\ k <= SumTo(npartition_samples, r)}

(* separate_samples_per_model_acv: [z_i^*, z_i] for every model *)
separate_samples_per_model_acv(allocation_mat, npartition_samples) ==
    [i \in 1..Len(npartition_samples) |->
        <<SubsetRows(allocation_mat, npartition_samples, 2 * (i - 1)),
          SubsetRows(allocation_mat, npartition_samples, 2 * (i - 1) + 1)>>]

(* AbstractACVEstimator.generate_data(functions): acv_samples *)
generate_data(e) ==
    separate_samples_per_model_acv(
        get_reordered_sample_allocation_matrix(e),
        get_npartition_samples(e, e.nsamples_per_model))

---------------------------------------------------------------------------
(* AETCBLUE: explore, exploit, estimate *)

(* np.ceil of a fraction; int() of the quotient of two numbers, which
   truncates towards zero *)
FCeil(a) == 0 - ((0 - a[1]) \div a[2])

IntDiv(a, b) == IF a >= 0 THEN a \div b ELSE 0 - ((0 - a) \div b)

(* The growth rule with the midpoint rounded down *)
AETC_growth_floor(nsamples, best_rate) ==
    IF FLess(FInt(2 * nsamples), best_rate) THEN 2 * nsamples
    ELSE IF FLess(FInt(nsamples), best_rate)
    THEN FFloor(FDiv(FAdd(FInt(nsamples), best_rate), FInt(2)))
    ELSE nsamples

(* The growth rule of _explore_step: the next exploration size from the
   number of pilot samples and the rate best_rate of the best subset *)
AETC_growth(nsamples, best_rate) ==
    IF FLess(FInt(2 * nsamples), best_rate) THEN 2 * nsamples
    ELSE IF FLess(FInt(nsamples), best_rate)
    THEN FCeil(FDiv(FAdd(FInt(nsamples), best_rate), FInt(2)))
    ELSE nsamples

(* if (total_budget-nexplore_samples*explore_cost) < 0:
       nexplore_samples = int(total_budget/explore_cost) *)
AETC_cap(total_budget, explore_cost, nexplore_samples) ==
    IF total_budget - nexplore_samples * explore_cost < 0
    THEN IntDiv(total_budget, explore_cost)
    ELSE nexplore_samples

(* AETCBLUE._explore_step on values of nsamples rows, best_rate being the
   rate of the subset of least loss: [raised, nexplore_samples, nsamples,
   best_rate] *)
AETC_explore_step(total_budget, explore_cost, nsamples, best_rate) ==
    IF total_budget - AETC_cap(total_budget, explore_cost,
                               AETC_growth(nsamples, best_rate)) * explore_cost < 0
    THEN [raised |-> "RuntimeError", nexplore_samples |-> 0,
          nsamples |-> nsamples, best_rate |-> best_rate]
    ELSE [raised |-> "none",
          nexplore_samples |-> AETC_cap(total_budget, explore_cost,
                                        AETC_growth(nsamples, best_rate)),
          nsamples |-> nsamples, best_rate |-> best_rate]

(* No run of estimate *)
IdleAetc ==
    [pc |-> "idle", costs |-> NoArray, total_budget |-> 0,
     nexplore_samples |-> 0, nexplore_samples_prev |-> 0, nvalues |-> 0,
     last_result |-> NoResult, steps |-> <<>>, phases |-> <<>>,
     exploited |-> NoResult, raised |-> "none"]

(* explore(total_budget, subsets=None) up to its loop: subsets are the
   subsets of the low-fidelity models, max_ncovariates is their number *)
AETC_explore_begin(costs, total_budget) ==
    [IdleAetc EXCEPT !.pc = "explore", !.costs = costs,
                     !.total_budget = total_budget,
                     !.nexplore_samples = (Len(costs) - 1) + 2]

(* A loop of explore that also continues when no sample is to be added *)
AETC_explore_continues_equal(a) == a.nexplore_samples - a.nexplore_samples_prev >= 0

(* while nexplore_samples - nexplore_samples_prev > 0 *)
AETC_explore_continues(a) == a.nexplore_samples - a.nexplore_samples_prev > 0

(* The loop body after result = self._explore_step(...); steps and phases
   record the steps taken *)
AETC_explore_after_step(a, nvalues, result) ==
    IF result.raised # "none"
    THEN [a EXCEPT !.pc = "raised", !.raised = result.raised, !.nvalues = nvalues,
                   !.nexplore_samples_prev = a.nexplore_samples]
    ELSE [a EXCEPT !.nvalues = nvalues,
                   !.nexplore_samples_prev = a.nexplore_samples,
                   !.nexplore_samples = result.nexplore_samples,
                   !.last_result = result,
                   !.steps = Append(a.steps, result),
                   !.phases = Append(a.phases, "explore")]

(* One pass of the loop of explore: nnew_samples more pilot samples are
   evaluated on all models, then the explore step runs on all values *)
AETC_explore_iteration(a, best_rate) ==
    AETC_explore_after_step(
        a, a.nvalues + (a.nexplore_samples - a.nexplore_samples_prev),
        AETC_explore_step(a.total_budget, SumTo(a.costs, Len(a.costs)),
                          a.nvalues + (a.nexplore_samples - a.nexplore_samples_prev),
                          best_rate))

(* estimate after explore returned: mean = self.exploit(result) *)
AETC_exploit(a) ==
    [a EXCEPT !.pc = "done", !.exploited = a.last_result,
              !.phases = Append(a.phases, "exploit")]

---------------------------------------------------------------------------
(* estimate_variance: trials, generators and worker processes *)

(* np.random.RandomState(seed): a generator of its own, at the start of the
   stream of its seed *)
NoGenerator == [seed |-> 0 - 1, pos |-> 0]

RandomState(seed) == [seed |-> seed, pos |-> 0]

(* The k-th number of the stream of a seed, and the k-th point of a
   low-discrepancy sequence, which depends on no seed *)
Stream(seed, k) == (5 * seed + 3 * k + 1) % 7

SobolPoint(k) == (2 * k + 1) % 7

TrialSamplingMethods == {"random", "sobol"}

(* self.generate_samples(nsamples) as set_sampling_method builds it: the
   random method draws from self.random_state, the sequences start at
   index 0 *)
generate_samples(sampling_method, random_state, nsamples) ==
    IF sampling_method = "random"
    THEN [k \in 1..nsamples |-> Stream(random_state.seed, random_state.pos + k - 1)]
    ELSE [k \in 1..nsamples |-> SobolPoint(k - 1)]

(* The generator after the call *)
generator_after(sampling_method, random_state, nsamples) ==
    IF sampling_method = "random"
    THEN [random_state EXCEPT !.pos = random_state.pos + nsamples]
    ELSE random_state

(* hf_mean and acv_mean of one trial, unnormalised: the first is computed
   from the high-fidelity sample alone, the second from all samples *)
trial_means(samples) == <<samples[1], SumTo(samples, Len(samples))>>

NoMeans == <<>>

IdleWorker == [pc |-> "idle", seed |-> 0 - 1, samples |-> <<>>]

IdlePool ==
    [mode |-> "idle", ntrials |-> 0, nsamples |-> 0, sampling_method |-> "random",
     next_trial |-> 0, estimators |-> <<>>, workers |-> <<>>, means |-> <<>>]

(* One estimator object used by all workers *)
EstimatorOf_shared(w) == 1

(* One copy of the estimator in every process: the trials of a pool run in
   the processes of multiprocessing.Pool, each of which works on the
   estimator pickled into it *)
EstimatorOf(w) == w

(* estimate_variance up to the trials: the loop is one process, a pool has
   max_eval_concurrency processes *)
estimate_variance_begin(ntrials, nsamples, sampling_method, max_eval_concurrency) ==
    [mode |-> IF max_eval_concurrency > 1 THEN "pool" ELSE "sequential",
     ntrials |-> ntrials, nsamples |-> nsamples,
     sampling_method |-> sampling_method, next_trial |-> 0,
     estimators |-> [w \in 1..max_eval_concurrency |-> NoGenerator],
     workers |-> [w \in 1..max_eval_concurrency |-> IdleWorker],
     means |-> [ii \in 1..ntrials |-> NoMeans]]

(* random_state = np.random.RandomState(seed)
   estimator.set_random_state(random_state) *)
trial_seed(p, w) ==
    [p EXCEPT !.next_trial = p.next_trial + 1,
              !.workers[w] = [pc |-> "seeded", seed |-> p.next_trial,
                              samples |-> <<>>],
              !.estimators[EstimatorOf(w)] = RandomState(p.next_trial)]

(* samples, values = estimator.generate_data(model_ensemble) *)
trial_generate(p, w) ==
    [p EXCEPT !.workers[w].pc = "drawn",
              !.workers[w].samples =
                  generate_samples(p.sampling_method,
                                   p.estimators[EstimatorOf(w)], p.nsamples),
              !.estimators[EstimatorOf(w)] =
                  generator_after(p.sampling_method,
                                  p.estimators[EstimatorOf(w)], p.nsamples)]

(* return hf_mean, acv_mean, stored in the row of the trial *)
trial_return(p, w) ==
    [p EXCEPT !.workers[w] = IdleWorker,
              !.means[p.workers[w].seed + 1] = trial_means(p.workers[w].samples)]

---------------------------------------------------------------------------
(* The closed form of the MLMC allocation (allocate_samples_mlmc of
   control_variate_monte_carlo, called at monte_carlo_estimators.py:645-646).
   A covariance is a matrix of fractions, cov[i][j] with 1-based i, j. *)

FSub(a, b) == Frac(a[1] * b[2] - b[1] * a[2], a[2] * b[2])

(* The integer part of the square root of a natural number *)
ISqrt(n) == CHOOSE k \in 0..n : k * k <= n /\ (k + 1) * (k + 1) > n

(* np.sqrt of a positive fraction; exact when IsSquare *)
FSqrt(a) == <<ISqrt(a[1]), ISqrt(a[2])>>

IsSquare(a) == a[1] > 0 /\ FMul(FSqrt(a), FSqrt(a)) = a

(* The variance of the discrepancy of level l: of model l minus model l+1,
   and of the last model alone *)
discrepancy_variance(cov, l) ==
    IF l < Len(cov)
    THEN FSub(FAdd(cov[l][l], cov[l + 1][l + 1]),
              FMul(FInt(2), cov[l][l + 1]))
    ELSE cov[l][l]

(* Variant: a discrepancy costs what its finer model costs *)
discrepancy_cost_of_level(costs, l) == FInt(costs[l])

(* The cost of one sample of the discrepancy of level l: both of its models
   are evaluated *)
discrepancy_cost(costs, l) ==
    IF l < Len(costs) THEN FInt(costs[l] + costs[l + 1]) ELSE FInt(costs[l])

(* allocate_samples_mlmc(cov, costs, target_cost): the discrepancy counts
   nl proportional to sqrt(variance/cost) and scaled to the target cost,
   the ratios of the per-model counts nl[l-1] + nl[l] to nl[0], and the
   variance sum_l variance_l/nl[l] (returned by the code as its log10) *)
allocate_samples_mlmc(cov, costs, target_cost) ==
    LET nmodels == Len(costs)
        vc == [l \in 1..nmodels |->
                  FMul(discrepancy_variance(cov, l), discrepancy_cost(costs, l))]
        sum1 == FSumTo([l \in 1..nmodels |-> FSqrt(vc[l])], nmodels)
        variance == FDiv(FMul(sum1, sum1), FInt(target_cost))
        nl == [l \in 1..nmodels |->
                  FMul(FDiv(sum1, variance),
                       FSqrt(FDiv(discrepancy_variance(cov, l),
                                  discrepancy_cost(costs, l))))]
    IN  [nsample_ratios |->
             [i \in 1..(nmodels - 1) |-> FDiv(FAdd(nl[i], nl[i + 1]), nl[1])],
         variance |-> variance]

---------------------------------------------------------------------------
(* get_best_models_for_acv_estimator: the search over subsets of models *)

(* a comes before b in the order of itertools.combinations *)
LexLess(a, b) ==
    \E i \in 1..Len(a) : a[i] < b[i] /\ \A j \in 1..(i - 1) : a[j] = b[j]

RECURSIVE SeqOfCombinations(_)
SeqOfCombinations(S) ==
    IF S = {} THEN <<>>
    ELSE LET x == CHOOSE y \in S : \A z \in S \ {y} : LexLess(y, z)
         IN  <<x>> \o SeqOfCombinations(S \ {x})

(* combinations(lf_model_indices, nsubset_lfmodels), lf_model_indices being
   1..nmodels-1 *)
combinations(nmodels, nsubset_lfmodels) ==
    SeqOfCombinations({c \in [1..nsubset_lfmodels -> 1..(nmodels - 1)] :
                          \A i \in 1..(nsubset_lfmodels - 1) : c[i] < c[i + 1]})

(* The values idx takes in the two loops, from nsubset_lfmodels on:
   np.hstack(([0], lf_model_subset_indices)) *)
RECURSIVE BestModels_subsets(_, _, _)
BestModels_subsets(nmodels, max_nmodels, nsubset_lfmodels) ==
    IF nsubset_lfmodels >= max_nmodels THEN <<>>
    ELSE LET cs == combinations(nmodels, nsubset_lfmodels)
         IN  [i \in 1..Len(cs) |-> <<0>> \o cs[i]]
             \o BestModels_subsets(nmodels, max_nmodels, nsubset_lfmodels + 1)

(* max_nmodels = None; no call of get_best_models_for_acv_estimator *)
NoCount == 0

IdleBest ==
    [pc |-> "idle", estimator_type |-> "none", costs |-> NoArray,
     max_nmodels |-> NoCount, passed_depth |-> NoDepth, tree_depth |-> NoDepth, todo |-> <<>>,
     tried |-> <<>>, depths |-> <<>>, variances |-> <<>>,
     best_variance |-> Inf, best_est |-> NoEstimator,
     best_model_indices |-> NoResult, raised |-> "none"]

(* The function up to its loops; tree_depth is kwargs["tree_depth"],
   NoDepth when kwargs has no such key *)
BestModels_begin(estimator_type, costs, max_nmodels, tree_depth) ==
    [IdleBest EXCEPT
        !.pc = "loop", !.estimator_type = estimator_type, !.costs = costs,
        !.max_nmodels = IF max_nmodels = NoCount THEN Len(costs) ELSE max_nmodels,
        !.passed_depth = tree_depth, !.tree_depth = tree_depth,
        !.todo = BestModels_subsets(
                     Len(costs),
                     IF max_nmodels = NoCount THEN Len(costs) ELSE max_nmodels, 1)]

(* if "tree_depth" in kwargs:
       kwargs["tree_depth"] = min(kwargs["tree_depth"], nsubset_lfmodels) *)
BestModels_tree_depth(b, nsubset_lfmodels) ==
    IF b.tree_depth = NoDepth THEN NoDepth
    ELSE IF b.tree_depth < nsubset_lfmodels THEN b.tree_depth
    ELSE nsubset_lfmodels

(* est = get_estimator(estimator_type, subset_cov, subset_costs, variable,
   **kwargs) for the subset idx *)
BestModels_estimator(b, idx, tree_depth) ==
    get_estimator(b.estimator_type, Len(idx), 1,
                  [i \in 1..Len(idx) |-> b.costs[idx[i] + 1]],
                  "random", NoneIndex, tree_depth, TRUE).est

(* One pass of the inner loop for the next idx; allocated is what
   est.allocate_samples(target_cost) did: [raised, variance] *)
BestModels_candidate(b, allocated) ==
    LET idx == Head(b.todo)
        tree_depth == BestModels_tree_depth(b, Len(idx) - 1)
        e == [BestModels_estimator(b, idx, tree_depth)
                 EXCEPT !.optimized_variance = allocated.variance]
        c == [b EXCEPT !.todo = Tail(b.todo), !.tree_depth = tree_depth,
                       !.tried = Append(b.tried, idx),
                       !.depths = Append(b.depths, e.depth),
                       !.variances = Append(b.variances, allocated.variance)]
    IN  IF allocated.raised # "none"
        THEN [b EXCEPT !.pc = "raised", !.raised = allocated.raised,
                       !.tree_depth = tree_depth]
        ELSE IF FLess(e.optimized_variance, b.best_variance)
        THEN [c EXCEPT !.best_est = e, !.best_model_indices = idx,
                       !.best_variance = e.optimized_variance]
        ELSE c

(* return best_est, best_model_indices *)
BestModels_return(b) == [b EXCEPT !.pc = "done"]

---------------------------------------------------------------------------
(* The calls a program makes *)

NoCall == [op |-> "none", args |-> <<>>, raised |-> "none", ret |-> NoReturn]

Call(op, args, raised, ret) == [op |-> op, args |-> args, raised |-> raised, ret |-> ret]

(* The record of a call: its arguments and what it returned, or the error
   it raised *)
Outcome(op, args, raised, ret) ==
    IF raised = "none" THEN Call(op, args, "none", ret)
    ELSE Call(op, <<>>, raised, NoReturn)

(* Cost vectors: the high-fidelity model is the most expensive *)
CostVectors(n) ==
    {c \in [1..n -> 1..MaxCost] : \A i \in 1..(n - 1) : c[i] >= c[i + 1]}

TargetCosts == 0..MaxTargetCost

(* The recursion indices a caller passes: every vector of parents of the
   right length, one too short and one too long *)
IndexInputs(n) ==
    [1..(n - 1) -> 0..(n - 1)]
    \cup {[i \in 1..(n - 2) |-> 0], [i \in 1..n |-> 0]}

Init ==
    /\ est = NoEstimator
    /\ search = IdleSearch
    /\ last = NoCall
    /\ aetc = IdleAetc
    /\ pool = IdlePool
    /\ best = IdleBest

(* est = get_estimator(estimator_type, cov, costs, variable, **kwargs) *)
Construct ==
    /\ est.type = "none"
    /\ \E estimator_type \in EstimatorTypes, n \in 1..MaxModels,
          cov_shape \in 1..MaxModels, sampling_method \in SamplingMethods :
       \E costs \in CostVectors(n),
          recursion_index \in (IF estimator_type = "acvgmf" /\ n >= 2
                               THEN IndexInputs(n) \cup {NoneIndex} ELSE {NoneIndex}),
          tree_depth \in (IF estimator_type = "acvgmfb"
                          THEN {NoDepth} \cup 1..(n - 1) ELSE {NoDepth}),
          models_accetable \in (IF estimator_type = "mfmc" THEN BOOLEAN ELSE {TRUE}) :
          /\ estimator_type \in ACVFamily => n >= 2
          /\ estimator_type = "mlblue" => n <= MaxBlueModels
          /\ LET r == get_estimator(estimator_type, cov_shape, 1, costs,
                                    sampling_method, recursion_index, tree_depth,
                                    models_accetable)
             IN  /\ est' = IF r.raised = "none" THEN r.est ELSE est
                 /\ last' = Call("get_estimator",
                                 [estimator_type |-> estimator_type,
                                  cov_shape |-> cov_shape, ncosts |-> n,
                                  sampling_method |-> sampling_method,
                                  recursion_index |-> recursion_index,
                                  models_accetable |-> models_accetable],
                                 r.raised, NoReturn)
    /\ search' = IdleSearch
    /\ UNCHANGED <<aetc, pool, best>>

(* est.set_recursion_index(index) of an ACVGMF estimator *)
SetRecursionIndex ==
    /\ est.type = "acvgmf"
    /\ \E index \in IndexInputs(est.nmodels) :
          LET r == set_recursion_index(est, index)
          IN  /\ est' = r.est
              /\ last' = Outcome("set_recursion_index", [index |-> index],
                                 r.raised, NoReturn)
    /\ search' = IdleSearch
    /\ UNCHANGED <<aetc, pool, best>>

(* est.allocate_samples(target_cost) of MLMC, MFMC, ACVMF, ACVIS, ACVGMF *)
AllocateSamples ==
    /\ est.type \in ACVFamily \ {"acvgmfb"}
    /\ search.pc = "idle"
    /\ \E target_cost \in TargetCosts :
       \E x \in OptimizerAnswers(est, target_cost), cv \in CVOutcomes(est) :
          LET r == allocate_samples(est, target_cost, x, cv)
          IN  /\ est' = r.est
              /\ last' = Outcome("allocate_samples", [target_cost |-> target_cost],
                                 r.raised, r.ret)
    /\ search' = IdleSearch
    /\ UNCHANGED <<aetc, pool, best>>

(* est.allocate_samples(target_cost) of the MC estimator *)
MCAllocateSamples ==
    /\ est.type = "mc"
    /\ \E target_cost \in TargetCosts :
          LET r == MC_allocate_samples(est, target_cost)
          IN  /\ est' = r.est
              /\ last' = Outcome("allocate_samples", [target_cost |-> target_cost],
                                 r.raised, r.ret)
    /\ search' = IdleSearch
    /\ UNCHANGED <<aetc, pool, best>>

(* est.allocate_samples(target_cost, asketch, round_nsamples=...) of MLBLUE *)
MLBLUEAllocateSamples ==
    /\ est.type = "mlblue"
    /\ \E target_cost \in TargetCosts, asketch_shape \in 1..MaxBlueModels,
          round_nsamples \in BOOLEAN :
       \E res \in (IF asketch_shape = Len(est.costs) THEN BlueAnswers(est)
                   ELSE {FailedAnswer}) :
          LET r == MLBLUE_allocate_samples(est, target_cost, asketch_shape, res,
                                           round_nsamples)
          IN  /\ est' = r.est
              /\ last' = Outcome("allocate_samples",
                                 [target_cost |-> target_cost,
                                  round_nsamples |-> round_nsamples],
                                 r.raised, r.ret)
    /\ search' = IdleSearch
    /\ UNCHANGED <<aetc, pool, best>>

(* est.allocate_samples(target_cost) of ACVGMFB: entering the search *)
SearchBegin ==
    /\ est.type = "acvgmfb"
    /\ search.pc = "idle"
    /\ \E target_cost \in TargetCosts :
          /\ search' = ACVGMFB_begin(est, target_cost)
          /\ last' = Call("allocate_samples", [target_cost |-> target_cost],
                          "running", NoReturn)
    /\ UNCHANGED est
    /\ UNCHANGED <<aetc, pool, best>>

(* One pass of the loop of the search *)
SearchCandidate ==
    /\ search.pc = "loop"
    /\ search.todo # <<>>
    /\ LET e1 == set_recursion_index(est, Head(search.todo)).est
       IN  \E x \in OptimizerAnswers(e1, search.target_cost), cv \in CVOutcomes(e1) :
              LET r == ACVGMFB_candidate(e1, search, x, cv)
              IN  /\ est' = r.est
                  /\ search' = r.search
                  /\ last' = IF r.raised = "none" THEN last
                             ELSE Outcome(last.op, last.args, r.raised, NoReturn)
    /\ UNCHANGED <<aetc, pool, best>>

(* The end of the search *)
SearchFinish ==
    /\ search.pc = "loop"
    /\ search.todo = <<>>
    /\ LET r == ACVGMFB_finish(est, search)
       IN  /\ est' = r.est
           /\ last' = Outcome(last.op, last.args, r.raised, r.ret)
    /\ search' = [search EXCEPT !.pc = "idle"]
    /\ UNCHANGED <<aetc, pool, best>>

(* acv_samples, acv_values = est.generate_data(functions), after an
   allocation *)
GenerateData ==
    /\ est.type \in ACVFamily
    /\ search.pc = "idle"
    /\ last.op = "allocate_samples"
    /\ last.raised = "none"
    /\ last' = Call("generate_data", <<>>, "none", generate_data(est))
    /\ UNCHANGED <<est, search, aetc, pool, best>>

(* samples, values = est.generate_data(functions) of the MC estimator,
   after an allocation *)
MCGenerateData ==
    /\ est.type = "mc"
    /\ last.op = "allocate_samples"
    /\ last.raised = "none"
    /\ LET r == MC_generate_data(est)
       IN  last' = Outcome("generate_data", <<>>, r.raised, r.ret)
    /\ UNCHANGED <<est, search>>
    /\ UNCHANGED <<aetc, pool, best>>

Next ==
    \/ Construct
    \/ SetRecursionIndex
    \/ AllocateSamples
    \/ MCAllocateSamples
    \/ MLBLUEAllocateSamples
    \/ SearchBegin
    \/ SearchCandidate
    \/ SearchFinish
    \/ GenerateData
    \/ MCGenerateData

Spec == Init /\ [][Next]_vars

---------------------------------------------------------------------------
(* AETCBLUE.estimate as a machine of its own *)

TotalBudgets == (0 - 2)..MaxBudget

BestRates == {Frac(k, 2) : k \in 0..MaxRateNum}

(* AETCBLUE(models, rvs, costs).estimate(total_budget): explore begins *)
AETCEstimate ==
    /\ aetc.pc = "idle"
    /\ \E n \in 2..MaxModels, total_budget \in TotalBudgets :
       \E costs \in CostVectors(n) :
          aetc' = AETC_explore_begin(costs, total_budget)
    /\ UNCHANGED <<est, search, last, pool, best>>

(* One pass of the loop of explore *)
AETCExplore ==
    /\ aetc.pc = "explore"
    /\ AETC_explore_continues(aetc)
    /\ \E best_rate \in BestRates :
          aetc' = AETC_explore_iteration(aetc, best_rate)
    /\ UNCHANGED <<est, search, last, pool, best>>

(* The loop of explore is left and exploit runs *)
AETCExploit ==
    /\ aetc.pc = "explore"
    /\ ~AETC_explore_continues(aetc)
    /\ aetc' = AETC_exploit(aetc)
    /\ UNCHANGED <<est, search, last, pool, best>>

AETCNext ==
    \/ AETCEstimate
    \/ AETCExplore
    \/ AETCExploit

AETCSpec == Init /\ [][AETCNext]_vars

(* explore is sequential code: once estimate is called, the loop and the
   exploitation after it are run as long as they can be *)
AETCFairSpec == AETCSpec /\ WF_vars(AETCExplore) /\ WF_vars(AETCExploit)

---------------------------------------------------------------------------
(* estimate_variance as a machine of its own *)

(* means, numerical_var, true_var = estimate_variance(model_ensemble,
   estimator, target_cost, ntrials, nsample_ratios, max_eval_concurrency) *)
EstimateVariance ==
    /\ pool.mode = "idle"
    /\ \E ntrials \in 1..MaxTrials, nsamples \in 1..MaxDraws,
          max_eval_concurrency \in 1..MaxConcurrency :
       \E sampling_method \in TrialSamplingMethods :
          pool' = estimate_variance_begin(ntrials, nsamples, sampling_method,
                                          max_eval_concurrency)
    /\ UNCHANGED <<est, search, last, aetc, best>>

(* A free process takes the next trial and seeds its generator *)
TrialSeed ==
    /\ pool.mode \in {"sequential", "pool"}
    /\ pool.next_trial < pool.ntrials
    /\ \E w \in 1..Len(pool.workers) :
          /\ pool.workers[w].pc = "idle"
          /\ pool' = trial_seed(pool, w)
    /\ UNCHANGED <<est, search, last, aetc, best>>

(* A process generates the data of its trial *)
TrialGenerate ==
    /\ \E w \in 1..Len(pool.workers) :
          /\ pool.workers[w].pc = "seeded"
          /\ pool' = trial_generate(pool, w)
    /\ UNCHANGED <<est, search, last, aetc, best>>

(* A process returns the means of its trial *)
TrialReturn ==
    /\ \E w \in 1..Len(pool.workers) :
          /\ pool.workers[w].pc = "drawn"
          /\ pool' = trial_return(pool, w)
    /\ UNCHANGED <<est, search, last, aetc, best>>

(* All trials returned: estimate_variance returns means *)
EstimateVarianceReturn ==
    /\ pool.mode \in {"sequential", "pool"}
    /\ pool.next_trial = pool.ntrials
    /\ \A w \in 1..Len(pool.workers) : pool.workers[w].pc = "idle"
    /\ pool' = [pool EXCEPT !.mode = "returned_" \o pool.mode]
    /\ UNCHANGED <<est, search, last, aetc, best>>

PoolNext ==
    \/ EstimateVariance
    \/ TrialSeed
    \/ TrialGenerate
    \/ TrialReturn
    \/ EstimateVarianceReturn

PoolSpec == Init /\ [][PoolNext]_vars

---------------------------------------------------------------------------
(* The closed forms as a machine of their own: a program makes one call on
   inputs of its own, which leaves its record in last *)

MLMCLevels == {2, 3}

(* 2x2 and 3x3 determinants of the leading blocks of a covariance *)
Minor2(cov) == FSub(FMul(cov[1][1], cov[2][2]), FMul(cov[1][2], cov[2][1]))

Minor3(cov) ==
    FAdd(FSub(FMul(cov[1][1], FSub(FMul(cov[2][2], cov[3][3]),
                                   FMul(cov[2][3], cov[3][2]))),
              FMul(cov[1][2], FSub(FMul(cov[2][1], cov[3][3]),
                                   FMul(cov[2][3], cov[3][1])))),
         FMul(cov[1][3], FSub(FMul(cov[2][1], cov[3][2]),
                              FMul(cov[2][2], cov[3][1]))))

(* np.linalg.cholesky(cov) succeeds *)
IsPositiveDefinite(cov) ==
    /\ Minor2(cov)[1] > 0
    /\ Len(cov) = 3 => Minor3(cov)[1] > 0

(* The position of the pair lo < hi among the pairs of 1..n *)
PairIndex(n, lo, hi) == (lo - 1) * n - (lo * (lo - 1)) \div 2 + (hi - lo)

(* Symmetric matrices with integer variances and fractional covariances *)
Covariances(n) ==
    {[i \in 1..n |-> [j \in 1..n |->
         IF i = j THEN FInt(d[i])
         ELSE IF i < j THEN o[PairIndex(n, i, j)] ELSE o[PairIndex(n, j, i)]]] :
     d \in [1..n -> 1..MaxVariance],
     o \in [1..((n * (n - 1)) \div 2) -> {Frac(k, CovDen) : k \in 1..(CovDen \div 2)}]}

LevelCosts(n) ==
    {c \in [1..n -> 1..MaxLevelCost] : \A i \in 1..(n - 1) : c[i] >= c[i + 1]}

SpendTargets == {k \in 1..MaxSpend : k % 27 = 0}

(* The square roots the closed form takes are exact *)
HasExactRoots(cov, costs) ==
    \A l \in 1..Len(costs) :
        IsSquare(FMul(discrepancy_variance(cov, l), discrepancy_cost(costs, l)))

FloatCosts(n) ==
    {c \in [1..n -> {Frac(k, CostDen) : k \in 1..CostDen}] :
        \A i \in 1..(n - 1) : FLeq(c[i + 1], c[i])}

(* nsample_ratios, log10_var = allocate_samples_mlmc(cov, costs, target_cost);
   nsamples = get_nsamples_per_model(target_cost, costs, nsample_ratios) *)
ClosedFormMLMC ==
    /\ last = NoCall
    /\ \E n \in MLMCLevels, target_cost \in SpendTargets :
       \E cov \in Covariances(n), costs \in LevelCosts(n) :
          /\ IsPositiveDefinite(cov)
          /\ HasExactRoots(cov, costs)
          /\ LET r == allocate_samples_mlmc(cov, costs, target_cost)
             IN  last' = Call("allocate_samples_mlmc",
                              <<cov, costs, target_cost>>, "none",
                              <<r.nsample_ratios, r.variance,
                                get_nsamples_per_model(target_cost, costs,
                                                       r.nsample_ratios)>>)
    /\ UNCHANGED <<est, search, aetc, pool, best>>

(* nhf_samples = get_nhf_samples(target_cost, costs, nsample_ratios) *)
ClosedFormNhf ==
    /\ last = NoCall
    /\ \E n \in MLMCLevels, target_cost \in 1..MaxFloatTarget :
       \E costs \in FloatCosts(n), ratios \in [1..(n - 1) -> 1..MaxLevelRatio] :
          LET nsample_ratios == [i \in 1..(n - 1) |-> FInt(ratios[i])]
          IN  last' = Call("get_nhf_samples",
                           <<target_cost, costs, nsample_ratios>>, "none",
                           get_nhf_samples_float(FInt(target_cost), costs,
                                                 nsample_ratios))
    /\ UNCHANGED <<est, search, aetc, pool, best>>

(* est._get_variance(target_cost, costs, cov, nsample_ratios) of an MLMC
   estimator, with the variance reduction its covariance gives *)
ClosedFormVariance ==
    /\ last = NoCall
    /\ \E n \in MLMCLevels, target_cost \in 1..MaxTargetCost, cov00 \in 1..MaxVarRed :
       \E costs \in CostVectors(n), nsample_ratios \in RatioVectors(n - 1),
          var_red \in VarReds :
          LET e == get_estimator("mlmc", n, cov00, costs, "random",
                                 NoneIndex, NoDepth, TRUE).est
              v == get_variance(e, target_cost, nsample_ratios,
                                [raised |-> "none", var_red |-> var_red])
          IN  last' = Call("_get_variance",
                           <<target_cost, costs, cov00, nsample_ratios, var_red>>,
                           v.raised, v.variance)
    /\ UNCHANGED <<est, search, aetc, pool, best>>

ClosedFormNext ==
    \/ ClosedFormMLMC
    \/ ClosedFormNhf
    \/ ClosedFormVariance

ClosedFormSpec == Init /\ [][ClosedFormNext]_vars

---------------------------------------------------------------------------
(* get_best_models_for_acv_estimator as a machine of its own *)

(* The estimators the function is called for: tree_depth is an argument
   of ACVGMFB only *)
BestModelsTypes == {"mfmc", "acvmf", "acvgmfb"}

(* What allocate_samples of a candidate does: it stores a variance or
   raises *)
CandidateAllocations ==
    {[raised |-> "none", variance |-> v] : v \in VarReds}
    \cup {[raised |-> "RuntimeError", variance |-> NoVariance]}

(* get_best_models_for_acv_estimator(estimator_type, cov, costs, variable,
   target_cost, max_nmodels, **kwargs) *)
BestModelsCall ==
    /\ best.pc = "idle"
    /\ \E estimator_type \in BestModelsTypes, n \in 2..MaxModels :
       \E costs \in CostVectors(n), max_nmodels \in {NoCount} \cup 2..n,
          tree_depth \in (IF estimator_type = "acvgmfb"
                          THEN {NoDepth} \cup 1..(n - 1) ELSE {NoDepth}) :
          best' = BestModels_begin(estimator_type, costs, max_nmodels, tree_depth)
    /\ UNCHANGED <<est, search, last, aetc, pool>>

(* One candidate subset *)
BestModelsCandidate ==
    /\ best.pc = "loop"
    /\ best.todo # <<>>
    /\ \E allocated \in CandidateAllocations :
          best' = BestModels_candidate(best, allocated)
    /\ UNCHANGED <<est, search, last, aetc, pool>>

(* The loops are over *)
BestModelsReturn ==
    /\ best.pc = "loop"
    /\ best.todo = <<>>
    /\ best' = BestModels_return(best)
    /\ UNCHANGED <<est, search, last, aetc, pool>>

BestModelsNext ==
    \/ BestModelsCall
    \/ BestModelsCandidate
    \/ BestModelsReturn

BestModelsSpec == Init /\ [][BestModelsNext]_vars

---------------------------------------------------------------------------
(* Properties *)

(* The last call returned *)
Returned(op) == last.op = op /\ last.raised = "none"

(* allocate_samples of an estimator of one of the types has returned *)
AllocationReturned(types) ==
    est.type \in types /\ search.pc = "idle" /\ Returned("allocate_samples")

(* Candidate k has the least variance and is the first to have it *)
IsFirstMinimum(k) ==
    /\ \A j \in 1..Len(search.outcomes) :
          FLeq(search.outcomes[k][3], search.outcomes[j][3])
    /\ \A j \in 1..(k - 1) : FLess(search.outcomes[k][3], search.outcomes[j][3])

(* C1: when allocate_samples of ACVGMFB returns, every index of
   get_acv_recursion_indices(nmodels, tree_depth) was tried once, in the
   order of the enumeration; the result returned and the recursion_index,
   nsample_ratios, rounded_target_cost and optimized_variance stored are
   those of the first candidate whose variance is the minimum *)
C1_SearchReturnsFirstMinimum ==
    AllocationReturned({"acvgmfb"}) =>
        /\ search.tried = get_acv_recursion_indices(est.nmodels, est.depth)
        /\ Len(search.outcomes) = Len(search.tried)
        /\ \E k \in 1..Len(search.tried) :
              /\ IsFirstMinimum(k)
              /\ est.recursion_index = search.tried[k]
              /\ <<est.nsample_ratios, est.rounded_target_cost,
                   est.optimized_variance>> = search.outcomes[k]
              /\ last.ret = search.outcomes[k]

(* The search returned and two candidates tied for the minimum variance *)
C1_Witness ==
    /\ AllocationReturned({"acvgmfb"})
    /\ \E i, j \in 1..Len(search.outcomes) :
          /\ i < j
          /\ search.outcomes[i][3] = est.optimized_variance
          /\ search.outcomes[j][3] = est.optimized_variance
          /\ est.recursion_index = search.tried[i]

(* C2: a candidate whose solve failed with a RuntimeError does not end the
   search: no RuntimeError reaches the caller, the candidate is scored with
   variance +infinity, it is never the best result, and the candidates after
   it are still tried *)
C2_FailedSolveScoredInfinite ==
    est.type = "acvgmfb" =>
        /\ last.raised # "RuntimeError"
        /\ \A i \in 1..Len(search.swallowed) :
              search.swallowed[i] =>
                  /\ search.outcomes[i][3] = Inf
                  /\ search.best_result # NoResult =>
                         /\ search.best_result[4] # search.tried[i]
                         /\ FLess(search.best_result[3], Inf)
        /\ search.pc = "loop" =>
               search.tried \o search.todo =
                   get_acv_recursion_indices(est.nmodels, est.depth)
        /\ (search.pc = "idle" /\ search.tried # <<>>) =>
               search.tried = get_acv_recursion_indices(est.nmodels, est.depth)

(* The search returned the result of a candidate tried after one whose
   solve had failed *)
C2_Witness ==
    /\ AllocationReturned({"acvgmfb"})
    /\ \E i, j \in 1..Len(search.tried) :
          /\ i < j
          /\ search.swallowed[i]
          /\ est.recursion_index = search.tried[j]

(* C3: a singular-system error raised while a candidate is evaluated never
   reaches the caller of allocate_samples of ACVGMFB *)
C3_SingularErrorCaught ==
    est.type = "acvgmfb" => last.raised \notin SingularErrors

(* C4: when allocate_samples of MLMC, MFMC, ACVMF, ACVIS or ACVGMF has
   returned (nsample_ratios, variance, rounded_target_cost), the estimator
   stores these three values and nsamples_per_model is
   get_nsamples_per_model(rounded_target_cost, costs, nsample_ratios) *)
C4_StoredStateIsLastResult ==
    AllocationReturned(ACVFamily \ {"acvgmfb"}) =>
        /\ est.nsample_ratios = last.ret[1]
        /\ est.optimized_variance = last.ret[2]
        /\ est.rounded_target_cost = last.ret[3]
        /\ est.nsamples_per_model =
               get_nsamples_per_model(last.ret[3], est.costs, last.ret[1])

(* MFMC returned an allocation with several high-fidelity samples that
   costs less than the target *)
C4_Witness ==
    /\ AllocationReturned({"mfmc"})
    /\ est.nsamples_per_model[1] >= 2
    /\ est.rounded_target_cost < last.args.target_cost

(* C5: when allocate_samples of ACVGMF has returned, every low-fidelity
   model has more samples than the high-fidelity model, and every model
   whose parent is a low-fidelity model has more samples than its parent *)
C5_CountsNestedAlongTree ==
    AllocationReturned({"acvgmf"}) =>
        \A ii \in 1..(est.nmodels - 1) :
            /\ est.nsamples_per_model[ii + 1] > est.nsamples_per_model[1]
            /\ est.recursion_index[ii] > 0 =>
                   est.nsamples_per_model[ii + 1] >
                       est.nsamples_per_model[est.recursion_index[ii] + 1]

(* ACVGMF returned for a chain of three models and rounding lowered the
   cost *)
C5_Witness ==
    /\ AllocationReturned({"acvgmf"})
    /\ est.nmodels = 3
    /\ est.recursion_index = <<0, 1>>
    /\ est.rounded_target_cost < last.args.target_cost

(* C6: the rounded ratios and rounded target cost give a whole number of
   samples for every model, and rounding them again changes nothing *)
C6_RoundingRoundTrip ==
    AllocationReturned(ACVFamily \ {"acvgmfb"}) =>
        /\ \A i \in 1..est.nmodels :
              FIsInt(nsamples_float(est.rounded_target_cost, est.costs,
                                    est.nsample_ratios)[i])
        /\ round_nsample_ratios(est.rounded_target_cost, est.costs,
                                est.nsample_ratios) =
               [raised |-> "none", nsample_ratios |-> est.nsample_ratios,
                rounded_target_cost |-> est.rounded_target_cost]

(* MLMC returned ratios that rounding made fractional *)
C6_Witness ==
    /\ AllocationReturned({"mlmc"})
    /\ est.rounded_target_cost < last.args.target_cost
    /\ \E i \in 1..(est.nmodels - 1) : ~FIsInt(est.nsample_ratios[i])

(* The cost of the sample counts of the models *)
RealizedCost(costs, nsamples) ==
    SumTo([i \in 1..Len(nsamples) |-> costs[i] * nsamples[i]], Len(nsamples))

(* The cost of the sample counts of the subsets of MLBLUE *)
RealizedSubsetCost(costs, nsamples) ==
    FSumTo([k \in 1..Len(nsamples) |->
               FMul(nsamples[k], FInt(get_model_subset_costs(costs)[k]))],
           Len(nsamples))

(* C7: when allocate_samples has returned, the rounded_target_cost returned
   and stored is the sum of costs[i] * nsamples_per_model[i], for MLBLUE
   the sum of subset cost times nsamples_per_subset *)
C7_RoundedCostIsRealizedCost ==
    AllocationReturned(monte_carlo_estimators) =>
        IF est.type = "mlblue"
        THEN /\ est.rounded_target_cost =
                    RealizedSubsetCost(est.costs, est.nsamples_per_subset)
             /\ last.ret[3] = est.rounded_target_cost
        ELSE /\ est.rounded_target_cost =
                    RealizedCost(est.costs, est.nsamples_per_model)
             /\ last.ret[IF est.type = "acvgmfb" THEN 2 ELSE 3] =
                    est.rounded_target_cost

(* MC returned an allocation that costs less than the target *)
C7_Witness ==
    /\ AllocationReturned({"mc"})
    /\ est.nsamples_per_model[1] >= 1
    /\ est.rounded_target_cost < last.args.target_cost

(* C8: allocate_samples never returns for a target cost below the cost of
   one high-fidelity sample *)
C8_InfeasibleBudgetRaises ==
    AllocationReturned(monte_carlo_estimators) =>
        last.args.target_cost >= est.costs[1]

(* The inputs of get_estimator are malformed *)
Malformed(args) ==
    \/ args.estimator_type \notin monte_carlo_estimators
    \/ args.cov_shape # args.ncosts
    \/ args.sampling_method \notin sampling_methods

(* C9: get_estimator with a covariance whose size is not the number of
   costs, an unsupported sampling method or an unknown estimator name raises
   ValueError and returns no estimator; every estimator that exists has
   matching cov and costs, a supported sampling method and a known type *)
C9_MalformedConstructionRaises ==
    /\ (last.op = "get_estimator" /\ Malformed(last.args)) =>
           (last.raised = "ValueError" /\ est = NoEstimator)
    /\ est # NoEstimator =>
           /\ est.type \in monte_carlo_estimators
           /\ est.cov_shape = Len(est.costs)
           /\ est.sampling_method \in sampling_methods

(* get_estimator raised for a covariance that does not match the costs,
   everything else being well formed *)
C9_Witness ==
    /\ last.op = "get_estimator"
    /\ last.raised = "ValueError"
    /\ last.args.estimator_type \in monte_carlo_estimators
    /\ last.args.sampling_method \in sampling_methods
    /\ last.args.cov_shape # last.args.ncosts
    /\ est = NoEstimator

(* C10: the recursion index an ACVGMF estimator stores has nmodels-1
   entries and is a tree rooted at model 0 *)
C10_StoredIndexIsTree ==
    est.type = "acvgmf" =>
        /\ Len(est.recursion_index) = est.nmodels - 1
        /\ IsTree(est.recursion_index)

(* C11: get_estimator of an MFMC estimator whose costs and correlations
   fail check_mfmc_model_costs_and_correlations raises ValueError and
   returns no estimator, so that every MFMC estimator that exists, and so
   every one that allocates samples, has passed the check *)
C11_UnacceptableMFMCRejected ==
    /\ (/\ last.op = "get_estimator"
        /\ last.args.estimator_type = "mfmc"
        /\ ~last.args.models_accetable) =>
           (last.raised = "ValueError" /\ est = NoEstimator)
    /\ est.type = "mfmc" => est.models_accetable

(* get_estimator raised for MFMC models that only fail the check of costs
   and correlations *)
C11_Witness ==
    /\ last.op = "get_estimator"
    /\ last.raised = "ValueError"
    /\ last.args.estimator_type = "mfmc"
    /\ ~Malformed(last.args)
    /\ ~last.args.models_accetable
    /\ est = NoEstimator

---------------------------------------------------------------------------
(* AETCBLUE *)

ExploreCost == SumTo(aetc.costs, Len(aetc.costs))

(* The exploration size the growth rule chooses in a recorded step *)
GrowthOf(s) == AETC_growth(s.nsamples, s.best_rate)

(* C12: in an explore step, whenever the exploration size chosen by the
   growth rule leaves a negative exploitation budget, the step raises: no
   step returns with such a size silently reduced *)
C12_NegativeBudgetRaises ==
    \A i \in 1..Len(aetc.steps) :
       /\ aetc.total_budget - GrowthOf(aetc.steps[i]) * ExploreCost >= 0
       /\ aetc.steps[i].nexplore_samples = GrowthOf(aetc.steps[i])

(* C13: estimate stays in Explore, adding pilot samples, as long as the
   step returns an exploration size larger than the pilot size; at the
   first step that does not it moves to Exploit, which runs once, on the
   result of that last step, computed from all pilot values, and is never
   followed by another explore step *)
C13_ExploreThenExploitOnce ==
    /\ \A i \in 1..Len(aetc.phases) :
          aetc.phases[i] = "exploit" => (i = Len(aetc.phases) /\ aetc.pc = "done")
    /\ \A i \in 1..(Len(aetc.steps) - 1) :
          /\ aetc.steps[i].nexplore_samples > aetc.steps[i].nsamples
          /\ aetc.steps[i + 1].nsamples = aetc.steps[i].nexplore_samples
    /\ (aetc.pc = "explore" /\ Len(aetc.steps) > 0) =>
          (AETC_explore_continues(aetc) <=>
             aetc.steps[Len(aetc.steps)].nexplore_samples
                > aetc.steps[Len(aetc.steps)].nsamples)
    /\ aetc.pc = "done" =>
          /\ Len(aetc.steps) > 0
          /\ aetc.phases = [i \in 1..(Len(aetc.steps) + 1) |->
                               IF i <= Len(aetc.steps) THEN "explore" ELSE "exploit"]
          /\ aetc.steps[Len(aetc.steps)].nexplore_samples
                <= aetc.steps[Len(aetc.steps)].nsamples
          /\ aetc.exploited = aetc.steps[Len(aetc.steps)]
          /\ aetc.exploited.nsamples = aetc.nvalues

C13_Witness ==
    /\ aetc.pc = "done"
    /\ Len(aetc.steps) >= 3
    /\ aetc.phases[Len(aetc.phases)] = "exploit"

(* The pilot size the three cases give before the cap: 2n when r > 2n,
   the least integer not below (n+r)/2 when n < r <= 2n, n when r <= n *)
PilotSizeBeforeCap(n, r) ==
    CASE FLess(FInt(2 * n), r) -> 2 * n
      [] FLess(FInt(n), r) /\ FLeq(r, FInt(2 * n)) ->
            CHOOSE k \in n..(2 * n) :
               /\ FLeq(FAdd(FInt(n), r), FInt(2 * k))
               /\ FLess(FInt(2 * (k - 1)), FAdd(FInt(n), r))
      [] FLeq(r, FInt(n)) -> n

(* C14: the next pilot size is 2n when r > 2n, ceil((n+r)/2) when
   n < r <= 2n and n when r <= n, then replaced by
   floor(total_budget/sum(costs)) when that many samples would cost more
   than total_budget; before the cap it never decreases and never more
   than doubles *)
C14_PilotGrowthRule ==
    \A i \in 1..Len(aetc.steps) :
       /\ aetc.steps[i].nexplore_samples =
             IF PilotSizeBeforeCap(aetc.steps[i].nsamples, aetc.steps[i].best_rate)
                   * ExploreCost > aetc.total_budget
             THEN FFloor(<<aetc.total_budget, ExploreCost>>)
             ELSE PilotSizeBeforeCap(aetc.steps[i].nsamples, aetc.steps[i].best_rate)
       /\ aetc.steps[i].nsamples
             <= PilotSizeBeforeCap(aetc.steps[i].nsamples, aetc.steps[i].best_rate)
       /\ PilotSizeBeforeCap(aetc.steps[i].nsamples, aetc.steps[i].best_rate)
             <= 2 * aetc.steps[i].nsamples

(* A run whose first step doubled the pilot size, whose second took the
   rounded-up midpoint of an odd sum and whose third was capped *)
C14_Witness ==
    /\ Len(aetc.steps) >= 3
    /\ aetc.steps[1].nexplore_samples = 2 * aetc.steps[1].nsamples
    /\ FLess(FInt(aetc.steps[2].nsamples), aetc.steps[2].best_rate)
    /\ ~FIsInt(FDiv(FAdd(FInt(aetc.steps[2].nsamples), aetc.steps[2].best_rate), FInt(2)))
    /\ aetc.steps[2].nexplore_samples > aetc.steps[2].nsamples
    /\ aetc.steps[3].nexplore_samples < GrowthOf(aetc.steps[3])

---------------------------------------------------------------------------
(* estimate_variance *)

(* The row a trial computes from a generator of its own seeded ii *)
RowOfSeed(sampling_method, nsamples, ii) ==
    trial_means(generate_samples(sampling_method, RandomState(ii), nsamples))

(* C15: trial ii draws its samples from a generator created for that trial
   alone from seed ii, no generator is shared between trials or workers,
   and row ii of the means is the same sequentially and in a worker pool,
   for any interleaving of the trials *)
C15_TrialsIndependentlySeeded ==
    /\ \A w \in 1..Len(pool.workers) :
          /\ pool.workers[w].pc = "seeded" =>
                pool.estimators[EstimatorOf(w)] = RandomState(pool.workers[w].seed)
          /\ pool.workers[w].pc = "drawn" =>
                /\ pool.estimators[EstimatorOf(w)].seed = pool.workers[w].seed
                /\ pool.workers[w].samples =
                      generate_samples(pool.sampling_method,
                                       RandomState(pool.workers[w].seed),
                                       pool.nsamples)
    /\ \A v, w \in 1..Len(pool.workers) :
          (v # w /\ pool.workers[v].pc # "idle" /\ pool.workers[w].pc # "idle") =>
             /\ EstimatorOf(v) # EstimatorOf(w)
             /\ pool.workers[v].seed # pool.workers[w].seed
    /\ \A ii \in 1..Len(pool.means) :
          pool.means[ii] # NoMeans =>
             pool.means[ii] = RowOfSeed(pool.sampling_method, pool.nsamples, ii - 1)

(* A pool returned all rows after two of its processes drew at the same time *)
C15_Witness ==
    /\ pool.mode = "returned_pool"
    /\ pool.sampling_method = "random"
    /\ pool.ntrials = MaxTrials
    /\ \A ii \in 1..Len(pool.means) : pool.means[ii] # NoMeans
    /\ pool.means[1] # pool.means[2]

---------------------------------------------------------------------------
(* Generated data, partitions and allocation matrices *)

(* The recursion parent of low-fidelity model i: the model before it for
   MFMC, model 0 for ACVMF and ACVIS, recursion_index[i-1] otherwise *)
ParentOf(e, i) ==
    IF e.type = "mfmc" THEN i - 1
    ELSE IF e.type \in RecursionFamily THEN e.recursion_index[i]
    ELSE 0

(* The sample counts do not decrease with the model number *)
Nondecreasing(nsamples_per_model) ==
    \A i \in 1..(Len(nsamples_per_model) - 1) :
       nsamples_per_model[i] <= nsamples_per_model[i + 1]

(* C16: in the data of generate_data after an allocation, the first sample
   set of low-fidelity model i is the second sample set of its recursion
   parent, row for row (the high-fidelity set of nsamples_per_model[0]
   samples when the parent is model 0), and its second set has
   nsamples_per_model[i] samples; for MFMC the first set of model j is the
   second set of model j-1 *)
C16_DataSetsFollowParents ==
    (/\ Returned("generate_data")
     /\ est.type \in ACVFamily \ {"mlmc"}
     /\ est.type = "mfmc" => Nondecreasing(est.nsamples_per_model)) =>
        /\ Cardinality(last.ret[1][2]) = est.nsamples_per_model[1]
        /\ \A i \in 1..(est.nmodels - 1) :
              /\ last.ret[i + 1][1] = last.ret[ParentOf(est, i) + 1][2]
              /\ Cardinality(last.ret[i + 1][2]) = est.nsamples_per_model[i + 1]

(* The data sets of the families other than ACVMF *)
C16_DataSetsOfOtherFamilies ==
    est.type # "acvmf" => C16_DataSetsFollowParents

(* The samples of model i as the subset sizes give them: z_i^* and z_i are
   disjoint for MLMC, z_i holds z_i^* for the other families *)
ReconstructedSamples(e, nsamples_subset, i) ==
    IF e.type = "mlmc" THEN nsamples_subset[2 * i - 1] + nsamples_subset[2 * i]
    ELSE nsamples_subset[2 * i]

(* C17: for every family and every stored allocation, the subset sizes of
   get_nsamples_subset on the family's reordered allocation matrix and
   partition sizes give back nsamples_per_model *)
C17_PartitionSumLaw ==
    AllocationReturned(ACVFamily) =>
        \A i \in 1..est.nmodels :
           ReconstructedSamples(
               est,
               get_nsamples_subset(
                   get_reordered_sample_allocation_matrix(est),
                   get_npartition_samples(est, est.nsamples_per_model)),
               i) = est.nsamples_per_model[i]

(* The partition-sum law of the families other than ACVMF *)
C17_LawOfOtherFamilies ==
    AllocationReturned(ACVFamily \ {"acvmf"}) => C17_PartitionSumLaw

ChainIndex(nmodels) == [i \in 1..(nmodels - 1) |-> i - 1]

(* The estimator of another family holding the same allocation *)
AsFamily(e, type) == [e EXCEPT !.type = type]

(* C18: ACVGMF with the chained index [0,1,...,M-2] has the allocation
   matrix and the partition sizes of MFMC for the same allocation *)
C18_ChainedIndexIsMFMC ==
    (AllocationReturned({"acvgmf"}) /\ est.recursion_index = ChainIndex(est.nmodels)) =>
        /\ est.allocation_mat = get_sample_allocation_matrix_mfmc(est.nmodels)
        /\ get_reordered_sample_allocation_matrix(est) =
              get_reordered_sample_allocation_matrix(AsFamily(est, "mfmc"))
        /\ get_npartition_samples(est, est.nsamples_per_model) =
              get_npartition_samples(AsFamily(est, "mfmc"), est.nsamples_per_model)

C18_Witness ==
    /\ AllocationReturned({"acvgmf"})
    /\ est.nmodels = 3
    /\ est.recursion_index = ChainIndex(3)
    /\ est.nsamples_per_model[3] - est.nsamples_per_model[2]
          # est.nsamples_per_model[2] - est.nsamples_per_model[1]

(* The entries of an allocation matrix in the rows of the partitions that
   hold samples *)
NonEmptyRows(allocation_mat, npartition_samples) ==
    {rc \in allocation_mat : npartition_samples[rc[1] + 1] # 0}

(* C19: ACVGMF with the all-zero index has the partition sizes of ACVMF
   and, on every partition that holds samples, the allocation matrix of
   ACVMF, for every stored allocation, whatever the order of the sample
   counts *)
C19_ZeroIndexIsACVMF ==
    (AllocationReturned({"acvgmf"}) /\ est.recursion_index = ZeroIndex(est.nmodels)) =>
        /\ get_npartition_samples(est, est.nsamples_per_model) =
              get_npartition_samples(AsFamily(est, "acvmf"), est.nsamples_per_model)
        /\ NonEmptyRows(get_reordered_sample_allocation_matrix(est),
                        get_npartition_samples(est, est.nsamples_per_model)) =
              NonEmptyRows(get_reordered_sample_allocation_matrix(AsFamily(est, "acvmf")),
                           get_npartition_samples(est, est.nsamples_per_model))

(* The same for the allocations whose sample counts do not decrease with
   the model number *)
C19_EqualWhenOrdered ==
    Nondecreasing(est.nsamples_per_model) => C19_ZeroIndexIsACVMF

---------------------------------------------------------------------------
(* The recursion indices of the search *)

(* The model reached from model m after at most k steps to the parent *)
RECURSIVE Ancestor(_, _, _)
Ancestor(recursion_index, m, k) ==
    IF k = 0 \/ m = 0 THEN m
    ELSE Ancestor(recursion_index, recursion_index[m], k - 1)

(* Every model reaches model 0 within depth steps: a tree rooted at model
   0 of depth at most depth *)
RootedWithin(recursion_index, depth) ==
    \A m \in 1..Len(recursion_index) : Ancestor(recursion_index, m, depth) = 0

(* The depth the search of an estimator uses *)
SearchDepth(e) == IF e.depth = NoDepth THEN e.nmodels - 1 ELSE e.depth

(* The indices the search has tried and those it has left *)
SearchIndices == search.tried \o search.todo

(* C20: get_acv_recursion_indices(nmodels, depth) yields the trees rooted
   at model 0 of depth at most depth, each once and nothing else, 10 of
   them for 4 models at depth 2 and 16 at depth 3 (computed when a search
   calls the generator); every index the ACVGMFB search tries is such a
   tree *)
C20_SearchTriesTheTrees ==
    /\ search.pc = "loop" =>
          /\ \A i \in 1..Len(SearchIndices) :
                /\ SearchIndices[i] \in [1..(est.nmodels - 1) -> 0..(est.nmodels - 1)]
                /\ RootedWithin(SearchIndices[i], SearchDepth(est))
          /\ \A i, j \in 1..Len(SearchIndices) :
                i # j => SearchIndices[i] # SearchIndices[j]
          /\ \A ix \in [1..(est.nmodels - 1) -> 0..(est.nmodels - 1)] :
                RootedWithin(ix, SearchDepth(est)) =>
                   \E i \in 1..Len(SearchIndices) : SearchIndices[i] = ix
    /\ \A i \in 1..Len(search.tried) :
          RootedWithin(search.tried[i], Len(search.tried[i]))
    /\ (search.pc = "loop" /\ search.tried = <<>>) =>
          /\ Len(get_acv_recursion_indices(4, 2)) = 10
          /\ Len(get_acv_recursion_indices(4, 3)) = 16
          /\ LET trees == get_acv_recursion_indices(4, 3)
             IN  \A i, j \in 1..Len(trees) :
                    RootedWithin(trees[i], 3) /\ (i # j => trees[i] # trees[j])

(* The search of three models has tried its three trees, the last of them
   with model 2 as the parent of model 1 *)
C20_Witness ==
    /\ search.pc = "loop"
    /\ est.nmodels = 3
    /\ Len(search.tried) = 3
    /\ search.todo = <<>>
    /\ \E i \in 1..3 : search.tried[i] = <<2, 0>>

---------------------------------------------------------------------------
(* The closed forms *)

(* The discrepancy counts that per-model counts n are made of: n[1], and
   n[l] less the count of the discrepancy before *)
RECURSIVE DiscrepancyCount(_, _)
DiscrepancyCount(n, l) ==
    IF l = 1 THEN n[1] ELSE FSub(n[l], DiscrepancyCount(n, l - 1))

(* The covariance, costs and target cost of test_mlmc_sample_allocation *)
TestCov ==
    << <<FInt(1), Frac(1, 2), Frac(1, 4)>>,
       <<Frac(1, 2), FInt(1), Frac(1, 2)>>,
       <<Frac(1, 4), Frac(1, 2), FInt(4)>> >>

IsTestAllocation == last.args = <<TestCov, <<6, 3, 1>>, 81>>

(* C21: the closed-form MLMC allocation spends the target cost exactly, its
   discrepancy counts are proportional to sqrt(discrepancy variance /
   discrepancy cost) (stated on the squares) and its variance is the sum of
   discrepancy variance / discrepancy count; for the covariance of the
   test, costs [6, 3, 1] and target cost 81 the discrepancy counts are
   3, 9, 18, the per-model counts 3, 12, 27 and the variance 1 *)
C21_MLMCClosedForm ==
    Returned("allocate_samples_mlmc") =>
        LET cov == last.args[1]
            costs == last.args[2]
            target_cost == last.args[3]
            nmodels == Len(costs)
            n == nsamples_float(target_cost, costs, last.ret[1])
            N == [l \in 1..nmodels |-> DiscrepancyCount(n, l)]
            V == [l \in 1..nmodels |-> discrepancy_variance(cov, l)]
            C == [l \in 1..nmodels |->
                     IF l < nmodels THEN FInt(costs[l] + costs[l + 1])
                     ELSE FInt(costs[l])]
        IN  /\ FSumTo([i \in 1..nmodels |-> FMul(n[i], FInt(costs[i]))], nmodels)
                   = FInt(target_cost)
            /\ \A l \in 1..nmodels :
                   /\ N[l][1] > 0
                   /\ FMul(FMul(FMul(N[l], N[l]), C[l]), V[1])
                          = FMul(FMul(FMul(N[1], N[1]), C[1]), V[l])
            /\ last.ret[2] = FSumTo([l \in 1..nmodels |-> FDiv(V[l], N[l])], nmodels)
            /\ IsTestAllocation =>
                   /\ N = <<FInt(3), FInt(9), FInt(18)>>
                   /\ last.ret[3] = <<3, 12, 27>>
                   /\ last.ret[2] = FInt(1)

(* The allocation of the test has been computed *)
C21_Witness ==
    /\ Returned("allocate_samples_mlmc")
    /\ IsTestAllocation
    /\ last.ret[3] = <<3, 12, 27>>

(* The arguments of test_get_nhf_samples *)
IsTestNhf == last.args = <<15, <<FInt(1), Frac(1, 2), Frac(1, 4)>>, <<FInt(2), FInt(4)>> >>

(* C22: get_nhf_samples(target_cost, costs, ratios) times the unit cost
   costs[0] + sum_i ratios[i] * costs[i+1] is target_cost, it is 5 for
   target cost 15, costs [1, 0.5, 0.25] and ratios [2, 4], and it is the
   number of samples _get_variance divides var_red * cov[0, 0] by *)
C22_NhfSamplesSpendTarget ==
    /\ Returned("get_nhf_samples") =>
           /\ FMul(last.ret, unit_cost(last.args[2], last.args[3])) = FInt(last.args[1])
           /\ IsTestNhf => last.ret = FInt(5)
    /\ Returned("_get_variance") =>
           LET target_cost == last.args[1]
               costs == last.args[2]
               nhf == FDiv(FInt(target_cost), unit_cost(FCosts(costs), last.args[4]))
           IN  FMul(last.ret, nhf) = FMul(last.args[5], FInt(last.args[3]))

(* get_nhf_samples has answered 5 on the arguments of the test *)
C22_Witness ==
    /\ Returned("get_nhf_samples")
    /\ IsTestNhf
    /\ last.ret = FInt(5)

---------------------------------------------------------------------------
(* Termination of explore *)

(* The passes of the loop of explore made so far: those whose step
   returned and the one whose step raised *)
Iterations == Len(aetc.steps) + (IF aetc.pc = "raised" THEN 1 ELSE 0)

(* floor(total_budget / sum(costs)) *)
AffordablePilotSize == FFloor(<<aetc.total_budget, ExploreCost>>)

(* Every pass but the last strictly increases the pilot size, and a pilot
   size reached by growth is affordable *)
PilotGrowsWithinBudget ==
    \A i \in 1..(Len(aetc.steps) - 1) :
       /\ aetc.steps[i + 1].nsamples > aetc.steps[i].nsamples
       /\ aetc.steps[i + 1].nsamples <= AffordablePilotSize

(* C23 as stated: when explore has ended, the number of passes its loop
   made is bounded by floor(total_budget / sum(costs)) *)
C23_IterationsBoundedByBudget ==
    aetc.pc \in {"done", "raised"} =>
        /\ PilotGrowsWithinBudget
        /\ Iterations <= AffordablePilotSize

(* C23 (amended): explore terminates for every total_budget and positive
   costs: every pass but the last strictly increases the pilot size, a
   pilot size reached by growth never exceeds floor(total_budget /
   sum(costs)), and the number of passes is bounded by the larger of 1 and
   that value *)
C23_ExploreTerminates ==
    /\ [](aetc.pc # "idle" =>
             /\ PilotGrowsWithinBudget
             /\ Iterations <= (IF AffordablePilotSize > 1
                               THEN AffordablePilotSize ELSE 1))
    /\ (aetc.pc = "explore") ~> (aetc.pc \in {"done", "raised"})

(* A run that ended after its pilot size grew twice, the second time to
   all the budget affords *)
C23_Witness ==
    /\ aetc.pc = "done"
    /\ Len(aetc.steps) >= 3
    /\ aetc.steps[Len(aetc.steps)].nsamples = AffordablePilotSize

(* C24: on return from explore the exploration size reported in the result
   is the number of pilot samples evaluated on all models, the number of
   rows of the returned values *)
C24_ReportedSizeIsRowsOfValues ==
    aetc.pc = "done" => aetc.exploited.nexplore_samples = aetc.nvalues

---------------------------------------------------------------------------
(* Errors and what they leave behind *)

(* allocate_samples of the recursion-tree search has ended, by a return or
   by an error *)
SearchEnded ==
    /\ est.type = "acvgmfb"
    /\ search.pc = "idle"
    /\ last.op = "allocate_samples"
    /\ last.raised # "running"

(* Every candidate of the search was tried and every one failed *)
EveryCandidateFailed ==
    /\ search.tried # <<>>
    /\ \A k \in 1..Len(search.tried) : search.swallowed[k]

(* C25: the recursion-tree search returns an allocation only when a
   candidate was solved with a finite variance, and what it returns is the
   result of such a candidate, its variance finite; when every candidate
   fails the call ends in an error *)
C25_SearchReturnsOnlySolved ==
    SearchEnded =>
        /\ last.raised = "none" =>
               /\ FLess(last.ret[3], Inf)
               /\ \E k \in 1..Len(search.tried) :
                      /\ ~search.swallowed[k]
                      /\ FLess(search.outcomes[k][3], Inf)
                      /\ last.ret = search.outcomes[k]
        /\ EveryCandidateFailed => last.raised # "none"

(* A search of several candidates, all failed, has ended in an error *)
C25_Witness ==
    /\ SearchEnded
    /\ EveryCandidateFailed
    /\ Len(search.tried) >= 2
    /\ last.raised = "TypeError"

(* The estimators whose allocate_samples is one call *)
SingleCallFamilies == {"mlmc", "mfmc", "acvmf", "acvis", "acvgmf", "mlblue"}

(* The last call was allocate_samples and it ended in an error *)
AllocationFailed ==
    last.op = "allocate_samples" /\ last.raised \notin {"none", "running"}

(* C26: allocate_samples of MLMC, MFMC, ACVMF, ACVIS, ACVGMF and MLBLUE
   is all-or-nothing: a call that ends in an error leaves nsample_ratios,
   nsamples_per_model, nsamples_per_subset, rounded_target_cost and
   optimized_variance as they were before the call *)
C26_FailedAllocationKeepsState ==
    [][(est.type \in SingleCallFamilies /\ AllocationFailed') =>
          /\ est'.nsample_ratios = est.nsample_ratios
          /\ est'.nsamples_per_model = est.nsamples_per_model
          /\ est'.nsamples_per_subset = est.nsamples_per_subset
          /\ est'.rounded_target_cost = est.rounded_target_cost
          /\ est'.optimized_variance = est.optimized_variance]_vars

(* A call failed on an estimator that held an earlier allocation *)
C26_Witness ==
    /\ est.type \in SingleCallFamilies
    /\ AllocationFailed
    /\ est.optimized_variance # NoVariance

(* C27: set_recursion_index(index) on an ACVGMF estimator returns only for
   an index of nmodels-1 entries and then changes recursion_index, to
   index, and allocation_mat and nothing else, a stored allocation
   included; when it raises it changes nothing *)
C27_SetRecursionIndexFrame ==
    [][(est.type = "acvgmf" /\ last'.op = "set_recursion_index") =>
          /\ last'.raised = "none" =>
                 /\ Len(last'.args.index) = est.nmodels - 1
                 /\ est'.recursion_index = last'.args.index
                 /\ est'.allocation_mat =
                        get_sample_allocation_matrix_acvmf(last'.args.index)
                 /\ est' = [est EXCEPT !.recursion_index = est'.recursion_index,
                                       !.allocation_mat = est'.allocation_mat]
          /\ last'.raised # "none" => est' = est]_vars

(* The index of an estimator that holds an allocation has been replaced by
   another one, the allocation still in place *)
C27_Witness ==
    /\ est.type = "acvgmf"
    /\ Returned("set_recursion_index")
    /\ est.nsample_ratios # NoArray
    /\ est.optimized_variance # NoVariance
    /\ \E i \in 1..Len(est.recursion_index) : est.recursion_index[i] # 0

---------------------------------------------------------------------------
(* The search over subsets of models *)

(* The number of subsets of k of n elements *)
RECURSIVE Binomial(_, _)
Binomial(n, k) ==
    IF k = 0 THEN 1 ELSE IF n = 0 THEN 0
    ELSE Binomial(n - 1, k - 1) + Binomial(n - 1, k)

(* The candidates tried are subsets made of model 0 and low-fidelity
   models in increasing order, no subset twice, smaller subsets first *)
CandidatesInOrder ==
    /\ \A i \in 1..Len(best.tried) :
          /\ best.tried[i][1] = 0
          /\ Len(best.tried[i]) \in 2..best.max_nmodels
          /\ \A j \in 1..(Len(best.tried[i]) - 1) :
                 /\ best.tried[i][j] < best.tried[i][j + 1]
                 /\ best.tried[i][j + 1] <= Len(best.costs) - 1
    /\ \A i \in 1..(Len(best.tried) - 1) :
          /\ Len(best.tried[i]) <= Len(best.tried[i + 1])
          /\ \A j \in (i + 1)..Len(best.tried) : best.tried[i] # best.tried[j]

(* Every subset was tried *)
EveryCandidateTried ==
    Len(best.tried) =
        SumTo([k \in 1..(best.max_nmodels - 1) |-> Binomial(Len(best.costs) - 1, k)],
              best.max_nmodels - 1)

(* What is returned is the first candidate of least variance *)
FirstBestReturned ==
    \E i \in 1..Len(best.tried) :
       /\ \A j \in 1..Len(best.tried) : FLeq(best.variances[i], best.variances[j])
       /\ \A j \in 1..(i - 1) : FLess(best.variances[i], best.variances[j])
       /\ best.best_model_indices = best.tried[i]
       /\ best.best_model_indices[1] = 0
       /\ best.best_est.optimized_variance = best.variances[i]
       /\ best.best_est.costs =
              [m \in 1..Len(best.tried[i]) |-> best.costs[best.tried[i][m] + 1]]

(* The estimator of every candidate had the depth min(tree_depth passed by
   the caller, k) *)
DepthsOfCandidates ==
    \A i \in 1..Len(best.tried) :
       best.depths[i] =
           IF best.passed_depth = NoDepth THEN NoDepth
           ELSE IF best.passed_depth < Len(best.tried[i]) - 1
           THEN best.passed_depth
           ELSE Len(best.tried[i]) - 1

(* C28: get_best_models_for_acv_estimator builds, for every subset of
   model 0 and k low-fidelity models, k from 1 to max_nmodels-1, in
   increasing k, an estimator of tree_depth min(the caller's tree_depth,
   k), and returns the first candidate of least optimized variance with its
   model indices, which start with 0 *)
C28_BestModelsSearch ==
    /\ CandidatesInOrder
    /\ DepthsOfCandidates
    /\ best.pc = "done" => (EveryCandidateTried /\ FirstBestReturned)

(* The rest of the claim without the depths *)
C28_SearchWithoutDepths ==
    /\ CandidatesInOrder
    /\ best.pc = "done" => (EveryCandidateTried /\ FirstBestReturned)

---------------------------------------------------------------------------
(* Monte Carlo and truncated counts *)

(* C29: for the MC estimator, once allocate_samples has stored
   nsamples_per_model = [floor(target_cost / costs[0])] for a feasible
   budget, generate_data succeeds, generates exactly that many samples and
   evaluates model 0 on them *)
C29_MCGeneratesAllocatedSamples ==
    (/\ est.type = "mc"
     /\ last.op = "generate_data"
     /\ est.nsamples_per_model[1] >= 1) =>
        /\ last.raised = "none"
        /\ last.ret.nsamples = est.nsamples_per_model[1]
        /\ last.ret.model = 0
        /\ last.ret.nvalues = est.nsamples_per_model[1]

(* C30: the counts MC and MLBLUE (round_nsamples = True) obtain by
   truncation are non-negative integers, for MC floor(target_cost /
   costs[0]), and the rounded_target_cost they store never exceeds
   target_cost *)
C30_TruncatedCountsWithinBudget ==
    /\ AllocationReturned({"mc"}) =>
           /\ est.nsamples_per_model = <<last.args.target_cost \div est.costs[1]>>
           /\ est.nsamples_per_model[1] >= 0
           /\ est.rounded_target_cost <= last.args.target_cost
    /\ (AllocationReturned({"mlblue"}) /\ last.args.round_nsamples) =>
           /\ \A k \in 1..Len(est.nsamples_per_subset) :
                  /\ FIsInt(est.nsamples_per_subset[k])
                  /\ est.nsamples_per_subset[k][1] >= 0
           /\ FLeq(est.rounded_target_cost, FInt(last.args.target_cost))

(* MLBLUE stored truncated counts, one of them zero, that cost less than
   the target *)
C30_Witness ==
    /\ AllocationReturned({"mlblue"})
    /\ last.args.round_nsamples
    /\ \E k \in 1..Len(est.nsamples_per_subset) : est.nsamples_per_subset[k][1] = 0
    /\ \E k \in 1..Len(est.nsamples_per_subset) : est.nsamples_per_subset[k][1] > 0
    /\ FLess(est.rounded_target_cost, FInt(last.args.target_cost))

=============================================================================
